---- MODULE Spec2Model ----
(***************************************************************************)
(* Schedule bot: the layered cache (services/cache.py), the Resolver      *)
(* (handlers/schedule.py) and the Monitor (services/monitor.py).           *)
(*                                                                         *)
(* Conventions.  An optional value is a sequence of length 0 or 1.  A     *)
(* Python dict whose iteration order matters is a sequence of entries in   *)
(* insertion order; a dict whose order is never observed is a function.    *)
(* The clock `now` is what datetime.now() returns; it advances by Tick     *)
(* only, so several operations may read the same instant.  Disk reads,     *)
(* writes and deletions succeed (the OSError branches are not taken).      *)
(* The handlers await the parser's functions; parser.py defines them as    *)
(* plain functions, so a parser call runs to completion inside the step    *)
(* that makes it and yields its value or its exception.                    *)
(***************************************************************************)
EXTENDS Naturals, Integers, Sequences, FiniteSets, TLC

VARIABLES
    cache,      \* the ScheduleCache instance of deps.py (all its fields, and its storage directory)
    now,        \* datetime.now()
    site,       \* the version of the department's page that is published
    mon,        \* the Monitor task: its position and its locals
    req,        \* the request being handled: its position and its locals
    users,      \* the registration store: chat ids with a stored group
    last,       \* history: the operation performed by the latest step
    inserted,   \* history: raw-byte insertions, oldest first, one per URL
    owed        \* history: watchers owed a change notification

vars == <<cache, now, site, mon, req, users, last, inserted, owed>>

-----------------------------------------------------------------------------
(* Bounds *)

MaxCacheSize == 3       \* byte budget (_max_cache_size), in bytes of the model
Ttl == 1                \* _ttl, in ticks of the clock
MaxEdits == 1           \* how many times the page is edited
MaxVersion == 4         \* how many listings the site can publish

MaxTime == Ttl + 1      \* the clock stops once the raw bytes and the listing can have expired

-----------------------------------------------------------------------------
(* Values *)

None == <<>>
Some(x) == <<x>>
IsSome(o) == Len(o) = 1
Get(o) == o[1]

Range(s) == {s[i] : i \in 1..Len(s)}

RECURSIVE SeqSum(_)
SeqSum(s) == IF s = <<>> THEN 0 ELSE Head(s) + SeqSum(Tail(s))

RECURSIVE SelectSeqBy(_, _)
\* s restricted to the entries whose url is in keep, order preserved
SelectSeqBy(s, keep) ==
    IF s = <<>> THEN <<>>
    ELSE IF Head(s).url \in keep THEN <<Head(s)>> \o SelectSeqBy(Tail(s), keep)
         ELSE SelectSeqBy(Tail(s), keep)

Urls == {"a", "b"}
Chats == {1}
Subscribers == {1, 2}

ScheduleFile(u, t) == [url |-> u, title |-> t]

\* Workbooks (byte strings) are named; BookLen is len(bytes).
BookEmpty == "empty"    \* b"": not a workbook
BookA == "A"            \* one sheet: group G1 with a Monday lesson
BookB == "B"            \* two sheets: G1 (Monday of week 1, Tuesday) and G2; G3 without a day column
BookMerged == "Bm"      \* BookB as published, its day cells merged
BookNoDay == "X"        \* one sheet: group G1, no day column; larger than the budget
BookTyped == "T"        \* one sheet, its header as typed: stray spaces, an empty cell
Books == {BookEmpty, BookA, BookB, BookMerged, BookNoDay}

BookLen(b) ==
    CASE b = BookEmpty -> 0
      [] b = BookA -> 1
      [] b = BookB -> 2
      [] b = BookMerged -> 2
      [] b = BookNoDay -> MaxCacheSize + 1

(* Text: a str is a sequence of characters.  The Cyrillic letters the code    *)
(* looks for are written in Latin, letter for letter ("n" for the week unit,  *)
(* "gr" for the subgroup mark, "aud" for the room mark).                       *)

Uppers == <<"A", "B", "C", "D", "E", "F", "G", "H", "I", "J", "K", "L", "M",
            "N", "O", "P", "Q", "R", "S", "T", "U", "V", "W", "X", "Y", "Z">>
Lowers == <<"a", "b", "c", "d", "e", "f", "g", "h", "i", "j", "k", "l", "m",
            "n", "o", "p", "q", "r", "s", "t", "u", "v", "w", "x", "y", "z">>
Digits == <<"0", "1", "2", "3", "4", "5", "6", "7", "8", "9">>

UpperOf == [ch \in Range(Lowers) |-> Uppers[CHOOSE i \in 1..Len(Lowers) : Lowers[i] = ch]]
LowerOf == [ch \in Range(Uppers) |-> Lowers[CHOOSE i \in 1..Len(Uppers) : Uppers[i] = ch]]
DigitOf == [ch \in Range(Digits) |-> (CHOOSE i \in 1..Len(Digits) : Digits[i] = ch) - 1]

\* str.isspace, str.isdigit, str.isupper of one character; \w of re
Spaces == {" ", "\t", "\n", "\r"}
DigitSet == Range(Digits)
IsSpace(ch) == ch \in Spaces
IsDigit(ch) == ch \in DigitSet
IsUpper(ch) == ch \in Range(Uppers)
IsWord(ch) == ch \in DigitSet \cup Range(Uppers) \cup Range(Lowers) \cup {"_"}

\* str.upper, str.lower
Converted(table, ch) == IF ch \in DOMAIN table THEN table[ch] ELSE ch
Upper(ch) == Converted(UpperOf, ch)
Lower(ch) == Converted(LowerOf, ch)
upper(text) == [i \in 1..Len(text) |-> Upper(text[i])]
lower(text) == [i \in 1..Len(text) |-> Lower(text[i])]

\* text[i:], text[:n]
From(text, i) == SubSeq(text, i, Len(text))
Upto(text, n) == SubSeq(text, 1, IF n < Len(text) THEN n ELSE Len(text))

\* text.startswith(prefix), pattern in text
startswith(text, prefix) ==
    Len(prefix) <= Len(text) /\ SubSeq(text, 1, Len(prefix)) = prefix
Contains(text, pattern) ==
    \E i \in 1..(Len(text) + 1) : startswith(From(text, i), pattern)

\* the index after the run of characters of the set that starts at index i
RECURSIVE RunEnd(_, _, _)
RunEnd(text, i, chars) ==
    IF i <= Len(text) /\ text[i] \in chars THEN RunEnd(text, i + 1, chars) ELSE i

\* int(text[i:j])
RECURSIVE int(_)
int(digits) ==
    IF digits = <<>> THEN 0
    ELSE 10 * int(SubSeq(digits, 1, Len(digits) - 1)) + DigitOf[digits[Len(digits)]]

\* text.strip(): from the first to the last character that is no space
Between(text, kept) ==
    IF kept = {} THEN <<>>
    ELSE SubSeq(text, CHOOSE i \in kept : \A j \in kept : i <= j,
                      CHOOSE i \in kept : \A j \in kept : j <= i)
strip(text) == Between(text, {i \in 1..Len(text) : text[i] \notin Spaces})

RECURSIVE split(_, _)
\* text.split(sep) for a separator of one character
split(text, sep) ==
    LET end == RunEnd(text, 1, Range(text) \ {sep})
    IN IF end > Len(text) THEN <<text>>
       ELSE <<SubSeq(text, 1, end - 1)>> \o split(From(text, end + 1), sep)

RECURSIVE join(_, _)
\* sep.join(parts)
join(sep, parts) ==
    IF parts = <<>> THEN <<>>
    ELSE IF Len(parts) = 1 THEN Head(parts)
    ELSE Head(parts) \o sep \o join(sep, Tail(parts))

RECURSIVE replace(_, _, _)
\* text.replace(old, new)
replace(text, old, new) ==
    IF text = <<>> THEN <<>>
    ELSE IF startswith(text, old)
         THEN new \o replace(From(text, Len(old) + 1), old, new)
         ELSE <<Head(text)>> \o replace(Tail(text), old, new)

RECURSIVE CollapseSpaces(_)
\* re.sub(r"\s+", " ", text)
CollapseSpaces(text) ==
    IF text = <<>> THEN <<>>
    ELSE IF IsSpace(Head(text))
         THEN <<" ">> \o CollapseSpaces(From(text, RunEnd(text, 1, Spaces)))
         ELSE <<Head(text)>> \o CollapseSpaces(Tail(text))

RECURSIVE RemoveSpaces(_)
\* re.sub(r"\s+", "", text)
RemoveSpaces(text) ==
    IF text = <<>> THEN <<>>
    ELSE IF IsSpace(Head(text)) THEN RemoveSpaces(Tail(text))
         ELSE <<Head(text)>> \o RemoveSpaces(Tail(text))

\* len(text.split())
WordCount(text) ==
    Cardinality({i \in 1..Len(text) :
                    ~IsSpace(text[i]) /\ (i = 1 \/ IsSpace(text[i - 1]))})

-----------------------------------------------------------------------------
(* services/cache.py: ScheduleCache *)

NewCache ==
    [file_list_cache |-> None,
     file_list_signature |-> None,
     file_content_cache |-> <<>>,
     current_cache_size |-> 0,
     file_metadata_cache |-> <<>>,
     group_location_cache |-> <<>>,
     watchers |-> {},
     disk |-> <<>>]

\* dict helpers: a dict is a sequence of entries with a url (or key) field
DictKeys(d) == {d[i].url : i \in 1..Len(d)}
DictHas(d, u) == u \in DictKeys(d)
DictGet(d, u) == d[CHOOSE i \in 1..Len(d) : d[i].url = u]
DictDel(d, u) == SelectSeqBy(d, DictKeys(d) \ {u})
DictSet(d, e) ==
    IF DictHas(d, e.url)
    THEN [i \in 1..Len(d) |-> IF d[i].url = e.url THEN e ELSE d[i]]
    ELSE Append(d, e)

Signature(files) == [i \in 1..Len(files) |-> <<files[i].url, files[i].title>>]
UrlsOf(files) == {files[i].url : i \in 1..Len(files)}

get_file_list(c, t) ==
    IF c.file_list_cache = None THEN None
    ELSE IF t - Get(c.file_list_cache).time > Ttl THEN None
         ELSE Some(Get(c.file_list_cache).files)

get_file_list_stale(c) ==
    IF c.file_list_cache = None THEN None
    ELSE Some(Get(c.file_list_cache).files)

_prune_storage_keeps_metadata(c, active_urls) ==
    LET kept == SelectSeqBy(c.file_content_cache, active_urls)
        gone == SelectSeqBy(c.file_content_cache, Urls \ active_urls)
    IN [c EXCEPT
          !.disk = SelectSeqBy(@, active_urls),
          !.file_content_cache = kept,
          !.current_cache_size =
              @ - SeqSum([i \in 1..Len(gone) |-> BookLen(gone[i].content)])]

_prune_storage(c, active_urls) ==
    LET kept == SelectSeqBy(c.file_content_cache, active_urls)
        gone == SelectSeqBy(c.file_content_cache, Urls \ active_urls)
    IN [c EXCEPT
          !.disk = SelectSeqBy(@, active_urls),
          !.file_content_cache = kept,
          !.current_cache_size =
              @ - SeqSum([i \in 1..Len(gone) |-> BookLen(gone[i].content)]),
          !.file_metadata_cache = SelectSeqBy(@, active_urls)]

PruneLocationsKeepAll(c, active_urls) == c

\* cache.py 73-79: drop the shortcuts whose file_url is not listed any more
PruneLocations(c, active_urls) ==
    [c EXCEPT !.group_location_cache = SelectSeqBy(@, active_urls)]

update_file_list(c, t, files) ==
    LET signature == Some(Signature(files))
        changed == signature # c.file_list_signature
        c1 == [c EXCEPT !.file_list_signature = signature,
                        !.file_list_cache = Some([time |-> t, files |-> files])]
    IN [cache |-> IF changed
                  THEN PruneLocations(_prune_storage(c1, UrlsOf(files)), UrlsOf(files))
                  ELSE c1,
        ret |-> changed]

get_file_list_signature(c) == c.file_list_signature

load_file_from_disk(c, u) ==
    IF DictHas(c.disk, u) THEN Some(DictGet(c.disk, u).content) ELSE None

\* cache.py 137: aiofiles.open(path, 'wb') creates the file or truncates it to b""
_persist_file_open(c, u) ==
    [c EXCEPT !.disk = DictSet(@, [url |-> u, content |-> BookEmpty])]

_persist_file(c, u, content) ==
    [c EXCEPT !.disk = DictSet(@, [url |-> u, content |-> content])]

get_file_content(c, t, u) ==
    IF ~DictHas(c.file_content_cache, u) THEN [cache |-> c, ret |-> None]
    ELSE LET e == DictGet(c.file_content_cache, u)
         IN IF t - e.time > Ttl
            THEN [cache |-> [c EXCEPT
                     !.file_content_cache = DictDel(@, u),
                     !.current_cache_size = @ - BookLen(e.content)],
                  ret |-> None]
            ELSE [cache |-> c, ret |-> Some(e.content)]

RECURSIVE SortedByTime(_)
\* sorted(items, key=time): stable, oldest first
SortedByTime(s) ==
    IF s = <<>> THEN <<>>
    ELSE LET e == s[Len(s)]
             r == SortedByTime(SubSeq(s, 1, Len(s) - 1))
             k == Cardinality({i \in 1..Len(r) : r[i].time <= e.time})
         IN SubSeq(r, 1, k) \o <<e>> \o SubSeq(r, k + 1, Len(r))

RECURSIVE SortedNewestFirst(_)
SortedNewestFirst(s) ==
    IF s = <<>> THEN <<>>
    ELSE LET e == s[Len(s)]
             r == SortedNewestFirst(SubSeq(s, 1, Len(s) - 1))
             k == Cardinality({i \in 1..Len(r) : r[i].time >= e.time})
         IN SubSeq(r, 1, k) \o <<e>> \o SubSeq(r, k + 1, Len(r))

RECURSIVE EvictLoop(_, _)
EvictLoop(c, sorted_items) ==
    IF c.current_cache_size > MaxCacheSize /\ sorted_items # <<>>
    THEN EvictLoop([c EXCEPT
                      !.file_content_cache = DictDel(@, Head(sorted_items).url),
                      !.current_cache_size = @ - BookLen(Head(sorted_items).content)],
                   Tail(sorted_items))
    ELSE c

_evict_newest_if_needed(c) ==
    IF c.current_cache_size <= MaxCacheSize THEN c
    ELSE EvictLoop(c, SortedNewestFirst(c.file_content_cache))

_evict_never(c) == c

_evict_oldest_if_needed(c) ==
    IF c.current_cache_size <= MaxCacheSize THEN c
    ELSE EvictLoop(c, SortedByTime(c.file_content_cache))

\* the part of set_file_content / set_file_content_async before the disk write
StoreInMemory(c, t, u, content) ==
    LET old == IF DictHas(c.file_content_cache, u)
               THEN BookLen(DictGet(c.file_content_cache, u).content) ELSE 0
        c1 == [c EXCEPT
                 !.file_content_cache =
                     DictSet(@, [url |-> u, time |-> t, content |-> content]),
                 !.current_cache_size = (@ - old) + BookLen(content)]
    IN _evict_oldest_if_needed(c1)

set_file_content(c, t, u, content, persist) ==
    LET c1 == StoreInMemory(c, t, u, content)
    IN IF persist THEN _persist_file(c1, u, content) ELSE c1

\* the whole call of set_file_content_async: the memory part, then the awaited disk write
set_file_content_async(c, t, u, content, persist) ==
    LET c1 == StoreInMemory(c, t, u, content)
    IN IF persist THEN _persist_file(c1, u, content) ELSE c1

\* ----- metadata (sheets -> groups) -----

MetadataTtl == Ttl * 2

get_file_metadata_without_ttl(c, t, u) ==
    IF ~DictHas(c.file_metadata_cache, u) THEN [cache |-> c, ret |-> None]
    ELSE [cache |-> c, ret |-> Some(DictGet(c.file_metadata_cache, u).metadata)]

get_file_metadata(c, t, u) ==
    IF ~DictHas(c.file_metadata_cache, u) THEN [cache |-> c, ret |-> None]
    ELSE LET e == DictGet(c.file_metadata_cache, u)
         IN IF t - e.time > MetadataTtl
            THEN [cache |-> [c EXCEPT !.file_metadata_cache = DictDel(@, u)],
                  ret |-> None]
            ELSE [cache |-> c, ret |-> Some(e.metadata)]

set_file_metadata(c, t, u, metadata) ==
    [c EXCEPT !.file_metadata_cache =
        DictSet(@, [url |-> u, time |-> t, metadata |-> metadata])]

\* ----- group location (group -> file, sheet) -----

GroupLocationTtl == Ttl * 4

RECURSIVE StripUpper(_)
\* re.sub(r"\s+", "", name).upper()
StripUpper(name) ==
    IF name = <<>> THEN <<>>
    ELSE IF IsSpace(Head(name)) THEN StripUpper(Tail(name))
         ELSE <<Upper(Head(name))>> \o StripUpper(Tail(name))

\* _normalize_group_name without upper()
_normalize_group_name_keeping_case(name) == RemoveSpaces(name)

_normalize_group_name(name) == StripUpper(name)

LocKeys(d) == {d[i].key : i \in 1..Len(d)}
LocGet(d, k) == d[CHOOSE i \in 1..Len(d) : d[i].key = k]
LocDel(d, k) == SelectSeq(d, LAMBDA e : e.key # k)
LocSet(d, e) ==
    IF e.key \in LocKeys(d)
    THEN [i \in 1..Len(d) |-> IF d[i].key = e.key THEN e ELSE d[i]]
    ELSE Append(d, e)

get_group_location(c, t, group_name) ==
    LET normalized == _normalize_group_name(group_name)
    IN IF normalized \notin LocKeys(c.group_location_cache)
       THEN [cache |-> c, ret |-> None]
       ELSE LET e == LocGet(c.group_location_cache, normalized)
            IN IF t - e.time > GroupLocationTtl
               THEN [cache |-> [c EXCEPT !.group_location_cache = LocDel(@, normalized)],
                     ret |-> None]
               ELSE [cache |-> c,
                     ret |-> Some([url |-> e.url, sheet |-> e.sheet, group |-> e.group])]

set_group_location(c, t, group_name, file_url, sheet_name, actual_group_name) ==
    [c EXCEPT !.group_location_cache =
        LocSet(@, [key |-> _normalize_group_name(group_name), time |-> t,
                   url |-> file_url, sheet |-> sheet_name, group |-> actual_group_name])]

\* ----- watchers -----

add_watcher(c, chat_id) == [c EXCEPT !.watchers = @ \cup {chat_id}]
get_watchers(c) == c.watchers
remove_watcher(c, chat_id) == [c EXCEPT !.watchers = @ \ {chat_id}]

-----------------------------------------------------------------------------
(* History kept beside the program state *)

NoLast ==
    [op |-> "init", url |-> "", files |-> <<>>, changed |-> FALSE, got |-> None,
     evicted |-> {}, dropped |-> {}, droppedLoc |-> {}, delisted |-> {},
     chat |-> 0, outcome |-> "", message |-> <<>>, args |-> <<>>]

\* URLs that hold an entry in some layer of the cache
HeldUrls(c) ==
    DictKeys(c.file_content_cache) \cup DictKeys(c.file_metadata_cache)
        \cup DictKeys(c.group_location_cache) \cup DictKeys(c.disk)

ListedUrls(c) ==
    IF c.file_list_cache = None THEN {} ELSE UrlsOf(Get(c.file_list_cache).files)

\* the insertion history after url u received len bytes
InsertedAfterSet(ins, u, len) ==
    Append(SelectSeqBy(ins, Urls \ {u}), [url |-> u, len |-> len])

\* the history fields of `last` for a call of update_file_list
LastUpdate(c, files, r) ==
    [NoLast EXCEPT !.op = "update_file_list", !.files = files, !.changed = r.ret,
                   !.dropped = HeldUrls(c) \ HeldUrls(r.cache),
                   !.droppedLoc = DictKeys(c.group_location_cache)
                                    \ DictKeys(r.cache.group_location_cache),
                   !.delisted = ListedUrls(c) \ UrlsOf(files)]

-----------------------------------------------------------------------------
(* The cache driven through its interface, one call per step *)

FileA1 == ScheduleFile("a", "t1")
FileA2 == ScheduleFile("a", "t2")
FileB == ScheduleFile("b", "t1")

Listings ==
    {<<>>, <<FileA1>>, <<FileA2>>, <<FileA1, FileB>>, <<FileB, FileA1>>}

Queries == {<<"g", "1">>, <<"G", " ", "1">>, <<"G", "2">>}
SampleMetadata == <<[sheet |-> "S1", groups |-> << <<"G", "1">> >>]>>

NoFile == ScheduleFile("", "")

\* a request that has not started: the locals of handle_schedule,
\* send_schedule_for_group, _find_group_schedule and _get_schedule_file_bytes
IdleReq ==
    [pc |-> "idle", query |-> <<>>, day |-> None, week |-> None, files |-> <<>>,
     stage |-> "", idx |-> 0, loc |-> None, sheet |-> "", group |-> <<>>,
     content |-> "", bytes |-> None, metadata |-> <<>>, failed |-> {},
     shortcut |-> "", tried |-> None, result |-> None, acquired |-> <<>>]

\* the Monitor before its first poll: the locals of monitor_updates,
\* _preload_files and _notify_about_update
IdleMon ==
    [pc |-> "poll", files |-> <<>>, idx |-> 0, changed |-> FALSE,
     previous_signature |-> None, content |-> "", pending |-> {},
     consecutive_errors |-> 0, wait |-> 0]

InitCache ==
    /\ cache = NewCache
    /\ now = 0
    /\ site = 0
    /\ mon = IdleMon
    /\ req = IdleReq
    /\ users = {}
    /\ last = NoLast
    /\ inserted = <<>>
    /\ owed = {}

Tick ==
    /\ now < MaxTime
    /\ now' = now + 1
    /\ last' = [NoLast EXCEPT !.op = "tick"]
    /\ UNCHANGED <<cache, site, mon, req, users, inserted, owed>>

\* set_file_content as its callers use it: persist=False (schedule.py 371, monitor.py 92)
CallSetFileContent ==
    \E u \in Urls, b \in Books \ {BookMerged} :
        /\ cache' = set_file_content(cache, now, u, b, FALSE)
        /\ last' = [NoLast EXCEPT !.op = "set_file_content", !.url = u,
                       !.evicted = (DictKeys(cache.file_content_cache) \cup {u})
                                     \ DictKeys(cache'.file_content_cache)]
        /\ inserted' = InsertedAfterSet(inserted, u, BookLen(b))
        /\ UNCHANGED <<now, site, mon, req, users, owed>>

\* set_file_content_async run to completion, persist=True (schedule.py 405, monitor.py 124)
CallSetFileContentAsync ==
    \E u \in Urls, b \in {BookB} :
        /\ cache' = set_file_content_async(cache, now, u, b, TRUE)
        /\ last' = [NoLast EXCEPT !.op = "set_file_content_async", !.url = u,
                       !.evicted = (DictKeys(cache.file_content_cache) \cup {u})
                                     \ DictKeys(cache'.file_content_cache)]
        /\ inserted' = InsertedAfterSet(inserted, u, BookLen(b))
        /\ UNCHANGED <<now, site, mon, req, users, owed>>

CallGetFileContent ==
    \E u \in Urls :
        LET r == get_file_content(cache, now, u)
        IN /\ cache' = r.cache
           /\ last' = [NoLast EXCEPT !.op = "get_file_content", !.url = u, !.got = r.ret]
           /\ UNCHANGED <<now, site, mon, req, users, inserted, owed>>

CallUpdateFileList ==
    \E files \in Listings :
        LET r == update_file_list(cache, now, files)
        IN /\ cache' = r.cache
           /\ last' = LastUpdate(cache, files, r)
           /\ inserted' = IF r.ret THEN SelectSeqBy(inserted, UrlsOf(files)) ELSE inserted
           /\ UNCHANGED <<now, site, mon, req, users, owed>>

CallSetFileMetadata ==
    \E u \in Urls :
        /\ cache' = set_file_metadata(cache, now, u, SampleMetadata)
        /\ last' = [NoLast EXCEPT !.op = "set_file_metadata", !.url = u]
        /\ UNCHANGED <<now, site, mon, req, users, inserted, owed>>

CallSetGroupLocation ==
    \E q \in Queries, u \in Urls :
        /\ cache' = set_group_location(cache, now, q, u, "S1", _normalize_group_name(q))
        /\ last' = [NoLast EXCEPT !.op = "set_group_location", !.url = u]
        /\ UNCHANGED <<now, site, mon, req, users, inserted, owed>>

NextBytes ==
    \/ Tick
    \/ CallSetFileContent
    \/ CallSetFileContentAsync
    \/ CallGetFileContent
    \/ CallUpdateFileList

SpecBytes == InitCache /\ [][NextBytes]_vars

NextListing ==
    \/ CallUpdateFileList
    \/ CallSetFileContentAsync
    \/ CallSetFileMetadata
    \/ CallSetGroupLocation

SpecListing == InitCache /\ [][NextListing]_vars

\* the clock, for as long as the longest-lived layer needs to expire
TickLong ==
    /\ now < GroupLocationTtl + 1
    /\ now' = now + 1
    /\ last' = [NoLast EXCEPT !.op = "tick"]
    /\ UNCHANGED <<cache, site, mon, req, users, inserted, owed>>

\* one entry per layer is written, at any time and any number of times
PutFileList ==
    LET r == update_file_list(cache, now, <<FileA1>>)
    IN /\ cache' = r.cache
       /\ last' = LastUpdate(cache, <<FileA1>>, r)
       /\ inserted' = IF r.ret THEN SelectSeqBy(inserted, {"a"}) ELSE inserted
       /\ UNCHANGED <<now, site, mon, req, users, owed>>

PutFileContent ==
    /\ cache' = set_file_content(cache, now, "a", BookA, FALSE)
    /\ last' = [NoLast EXCEPT !.op = "set_file_content", !.url = "a"]
    /\ inserted' = InsertedAfterSet(inserted, "a", BookLen(BookA))
    /\ UNCHANGED <<now, site, mon, req, users, owed>>

PutFileMetadata ==
    /\ cache' = set_file_metadata(cache, now, "a", SampleMetadata)
    /\ last' = [NoLast EXCEPT !.op = "set_file_metadata", !.url = "a"]
    /\ UNCHANGED <<now, site, mon, req, users, inserted, owed>>

PutGroupLocation ==
    /\ cache' = set_group_location(cache, now, <<"g", " ", "1">>, "a", "S1", <<"G", "1">>)
    /\ last' = [NoLast EXCEPT !.op = "set_group_location", !.url = "a"]
    /\ UNCHANGED <<now, site, mon, req, users, inserted, owed>>

CallGetFileList ==
    /\ last' = [NoLast EXCEPT !.op = "get_file_list", !.got = get_file_list(cache, now)]
    /\ UNCHANGED <<cache, now, site, mon, req, users, inserted, owed>>

CallGetFileMetadata ==
    \E u \in Urls :
        LET r == get_file_metadata(cache, now, u)
        IN /\ cache' = r.cache
           /\ last' = [NoLast EXCEPT !.op = "get_file_metadata", !.url = u, !.got = r.ret]
           /\ UNCHANGED <<now, site, mon, req, users, inserted, owed>>

CallGetGroupLocation ==
    \E q \in Queries :
        LET r == get_group_location(cache, now, q)
        IN /\ cache' = r.cache
           /\ last' = [NoLast EXCEPT !.op = "get_group_location", !.got = r.ret]
           /\ UNCHANGED <<now, site, mon, req, users, inserted, owed>>

\* the four layers, each with one entry, over a clock that outlasts every TTL
NextTtl ==
    \/ TickLong
    \/ PutFileList
    \/ PutFileContent
    \/ PutFileMetadata
    \/ PutGroupLocation
    \/ CallGetFileList
    \/ CallGetFileContent
    \/ CallGetFileMetadata
    \/ CallGetGroupLocation

SpecTtl == InitCache /\ [][NextTtl]_vars

-----------------------------------------------------------------------------
(* services/parser.py, on workbooks described by their sheets *)

G1 == <<"G", "1">>
G2 == <<"G", "2">>
G3 == <<"G", "3">>

DAY_COLUMN == <<"D", "e", "n", "'">>
TIME_COLUMN == <<"V", "r", "e", "m", "y", "a", " ", "z", "a", "n", "y", "a", "t", "i", "j">>

\* a sheet: the header row as the file has it (<<>>: an empty cell), and below
\* it, for each (day, time) slot and column (by its place in the header), the
\* cell values of the slot joined by _combine_cells
Row(d, tm, column, content) == [day |-> d, time |-> tm, column |-> column, content |-> content]

SheetS1A ==
    [name |-> "S1", loadable |-> TRUE,
     header |-> <<DAY_COLUMN, TIME_COLUMN, G1>>,
     rows |-> <<Row("Mon", 9, 3, <<"A", "l">>)>>]

\* rows in the order of groupby([day, time]): sorted by day name, then time
SheetS1B ==
    [name |-> "S1", loadable |-> TRUE,
     header |-> <<DAY_COLUMN, TIME_COLUMN, G1, G2>>,
     rows |-> <<Row("Mon", 9, 3, <<"B", "l", " ", "1", "n">>),
                Row("Mon", 9, 4, <<"B", "s">>),
                Row("Tue", 9, 3, <<"B", "b">>)>>]

SheetS2B ==
    [name |-> "S2", loadable |-> TRUE,
     header |-> <<TIME_COLUMN, G3>>, rows |-> <<>>]

SheetS1X ==
    [name |-> "S1", loadable |-> TRUE,
     header |-> <<TIME_COLUMN, G1>>, rows |-> <<>>]

\* the lecture of weeks 1-8 and the laboratory of weeks 9-16 in one cell
TwoLessons ==
    <<"L", "e", "k", "c", "i", "a", " ", "(", "l", "e", "k", ")", " ", "1", "-", "8", "n", "\n", "a", "u", "d", " ", "2", "0", "5", "\n",
      "L", "a", "b", "o", "r", "a", "t", "o", "r", "n", "a", "a", " ", "(", "l", "a", "b", ")", " ", "9", "-", "1", "6", "n", "\n", "a", "u", "d", " ", "2", "1", "0">>

SheetS1T ==
    [name |-> "S1", loadable |-> TRUE,
     header |-> <<<<" ", "D", "e", "n", "'", " ">>, TIME_COLUMN,
                  <<"G", " ", "-", " ", "1">>, <<>>, <<"G", " ", " ", "2">>>>,
     rows |-> <<Row("Mon", 9, 3, TwoLessons),
                Row("Mon", 9, 4, <<"x">>),
                Row("Mon", 9, 5, <<"H", "i", "m", "i", "a", " ", "(", "s", "e", "m", ")", " ", "3", "n", "\n", "a", "u", "d", " ", "7">>),
                Row("Tue", 9, 3, <<"F", "i", "z", "i", "k", "a", " ", "1", "/", "2", " ", "g", "r", "\n", "a", "u", "d", " ", "3">>),
                Row("Tue", 9, 5, <<"H", "i", "m", "i", "a", " ", "(", "s", "e", "m", ")", "\n", "a", "u", "d", " ", "7">>)>>]

IsWorkbook(b) == b # BookEmpty

Sheets(b) ==
    CASE b = BookA -> <<SheetS1A>>
      [] b = BookB -> <<SheetS1B, SheetS2B>>
      [] b = BookMerged -> <<SheetS1B, SheetS2B>>
      [] b = BookNoDay -> <<SheetS1X>>
      [] b = BookTyped -> <<SheetS1T>>
      [] OTHER -> <<>>

Workbooks == Books \cup {BookTyped}
AllSheets == UNION {Range(Sheets(b)) : b \in Workbooks}

\* _cleanup_column_name: the header of a column as the data frame names it
Unnamed == <<"U", "n", "n", "a", "m", "e", "d">>

\* lines 177-182, on the name with its runs of spaces collapsed and its ends
\* stripped
CleanedUp(normalized) ==
    IF startswith(normalized, Unnamed) THEN normalized
    ELSE replace(replace(replace(normalized, <<" ", "-">>, <<"-">>),
                         <<"-", " ">>, <<"-">>),
                 <<" ", " ">>, <<" ">>)

_cleanup_column_name(name) == CleanedUp(strip(CollapseSpaces(name)))

(* The regular expressions of the parser, as the steps they take through a    *)
(* text: "d+" a run of digits, "s*" and "s+" a run of spaces, "b" the         *)
(* boundary of a word, ".?" a dot or none, "dash" a hyphen or an en dash,     *)
(* "gr" the subgroup mark and "n" the week unit in either case, and any other *)
(* step the character it names.  No step of these expressions can give back   *)
(* characters to the step after it, so a match goes without backtracking.     *)

\* the week unit after a number, whatever the case: the letter "n"
IsWeekUnit(text, i) == i <= Len(text) /\ text[i] \in {"n", "N"}
IsDash(text, i) == i <= Len(text) /\ text[i] \in {"-", "--"}     \* "--": the en dash
IsSubgroup(text, i) ==
    i + 1 <= Len(text) /\ text[i] \in {"g", "G"} /\ text[i + 1] \in {"r", "R"}

\* the index after the step taken at index i, or 0 when the step fails
StepEnd(text, i, step) ==
    CASE step = "d+" -> IF RunEnd(text, i, DigitSet) > i
                        THEN RunEnd(text, i, DigitSet) ELSE 0
      [] step = "s*" -> RunEnd(text, i, Spaces)
      [] step = "s+" -> IF RunEnd(text, i, Spaces) > i THEN RunEnd(text, i, Spaces) ELSE 0
      [] step = "b" -> IF i = 1 \/ ~IsWord(text[i - 1]) THEN i ELSE 0
      [] step = ".?" -> IF i <= Len(text) /\ text[i] = "." THEN i + 1 ELSE i
      [] step = "dash" -> IF IsDash(text, i) THEN i + 1 ELSE 0
      [] step = "gr" -> IF IsSubgroup(text, i) THEN i + 2 ELSE 0
      [] step = "n" -> IF IsWeekUnit(text, i) THEN i + 1 ELSE 0
      [] OTHER -> IF i <= Len(text) /\ text[i] = step THEN i + 1 ELSE 0

\* one more step after the steps that gave the marks; a step that failed ends
\* the match
NextStep(text, i, marks, step) ==
    IF marks = <<>> THEN <<StepEnd(text, i, step)>>
    ELSE IF marks[Len(marks)] = 0 THEN marks
    ELSE Append(marks, StepEnd(text, marks[Len(marks)], step))

\* the indices after the steps of a match that starts at index i; the step that
\* fails gives 0 and ends them
RECURSIVE MatchSteps(_, _, _)
MatchSteps(text, i, steps) ==
    IF steps = <<>> THEN <<>>
    ELSE NextStep(text, i, MatchSteps(text, i, SubSeq(steps, 1, Len(steps) - 1)),
                  steps[Len(steps)])

Matches(marks) == marks[Len(marks)] # 0

\* int() of the group of a match that lies between two indices
Group(text, from, to) == int(SubSeq(text, from, to - 1))

\* re.search(r"\d+\s*(?:[-en dash]\s*\d+)?\s*n", lowered)
SearchWeek(lowered) ==
    \E i \in 1..Len(lowered) :
        \/ Matches(MatchSteps(lowered, i, <<"d+", "s*", "n">>))
        \/ Matches(MatchSteps(lowered, i,
                              <<"d+", "s*", "dash", "s*", "d+", "s*", "n">>))

_contains_week(text) == SearchWeek(lower(text))

\* re.sub(r"\d+/\d+\s*gr\.?", "", text, flags=re.IGNORECASE)
RECURSIVE RemoveSubgroups(_)
RemoveSubgroups(text) ==
    IF text = <<>> THEN <<>>
    ELSE IF Matches(MatchSteps(text, 1, <<"d+", "/", "d+", "s*", "gr", ".?">>))
         THEN RemoveSubgroups(
                From(text, MatchSteps(text, 1, <<"d+", "/", "d+", "s*", "gr", ".?">>)[6]))
    ELSE <<Head(text)>> \o RemoveSubgroups(Tail(text))

\* a match of re.findall: the range of weeks it gives and the index after it
Match(range, end) == Some([range |-> range, end |-> end])
OrElse(found, other) == IF found # None THEN found ELSE other

\* r"(\d+)\s*-\s*(\d+)\s*n": the range "N-M n"
RangeWithUnit(text, i, marks) ==
    IF Matches(marks)
    THEN Match(<<Group(text, i, marks[1]), Group(text, marks[4], marks[5])>>, marks[7])
    ELSE None

\* r"\b(\d+)\s*n": the single week "N n"
WeekWithUnit(text, i, marks) ==
    IF Matches(marks)
    THEN Match(<<Group(text, i, marks[2]), Group(text, i, marks[2])>>, marks[4])
    ELSE None

\* one match of r"(\d+)\s*-\s*(\d+)\s*n|\b(\d+)\s*n" at index i, or None
WeekWithUnitAt(text, i) ==
    OrElse(RangeWithUnit(text, i,
                         MatchSteps(text, i, <<"d+", "s*", "-", "s*", "d+", "s*", "n">>)),
           WeekWithUnit(text, i, MatchSteps(text, i, <<"b", "d+", "s*", "n">>)))

RangeAfterSubgroup(text, marks) ==
    IF Matches(marks)
    THEN Match(<<Group(text, marks[3], marks[4]), Group(text, marks[7], marks[8])>>,
               marks[8])
    ELSE None

\* one match of r"gr\.?\s+(\d+)\s*-\s*(\d+)" at index i, or None
WeekAfterSubgroupAt(text, i) ==
    RangeAfterSubgroup(text,
        MatchSteps(text, i, <<"gr", ".?", "s+", "d+", "s*", "-", "s*", "d+">>))

\* re.findall: the matches from left to right, none overlapping another
RECURSIVE FindAllWithUnit(_, _)
FindAllWithUnit(text, i) ==
    LET Rest(m) == IF m = None THEN FindAllWithUnit(text, i + 1)
                   ELSE <<Get(m).range>> \o FindAllWithUnit(text, Get(m).end)
    IN IF i > Len(text) THEN <<>> ELSE Rest(WeekWithUnitAt(text, i))

RECURSIVE FindAllAfterSubgroup(_, _)
FindAllAfterSubgroup(text, i) ==
    LET Rest(m) == IF m = None THEN FindAllAfterSubgroup(text, i + 1)
                   ELSE <<Get(m).range>> \o FindAllAfterSubgroup(text, Get(m).end)
    IN IF i > Len(text) THEN <<>> ELSE Rest(WeekAfterSubgroupAt(text, i))

\* the ranges _matches_week collects from the text of a block: those with the
\* week unit, then those after a subgroup that look like weeks
CollectRanges(text) ==
    FindAllWithUnit(RemoveSubgroups(text), 1)
        \o SelectSeq(FindAllAfterSubgroup(text, 1), LAMBDA p : p[1] <= 18 /\ p[2] <= 18)

LessonBlock(title, details) == [title |-> title, details |-> details]

title_markers ==
    {<<"(", "l", "e", "k">>, <<"(", "l", "a", "b">>, <<"(", "p", "r", "a", "k">>,
     <<"(", "s", "e", "m">>, <<"(", "p", "r">>, <<"k", "u", "r", "s">>}

is_title(text) ==
    IF text = <<>> THEN FALSE
    ELSE IF startswith(text, <<"h", "t", "t", "p">>) THEN FALSE
    ELSE IF Contains(lower(text), <<"a", "u", "d">>) THEN FALSE
    ELSE IF \E i \in 1..Len(Upto(text, 6)) : IsDigit(text[i]) THEN FALSE
    ELSE IF IsUpper(text[1]) /\ \E marker \in title_markers : Contains(text, marker)
         THEN TRUE
    ELSE IF Contains(text, <<".">>) THEN FALSE
    ELSE IF ~IsUpper(text[1]) THEN FALSE
    ELSE WordCount(text) >= 3 \/ WordCount(text) <= 2

\* flush leaving `details` as it is
flush_keeping_details(s) ==
    [blocks |-> IF s.title # None
                THEN Append(s.blocks, LessonBlock(Get(s.title), s.details))
                ELSE s.blocks,
     title |-> None, details |-> s.details, has_week |-> FALSE]

\* the loop of _merge_blocks over the lines, with its locals
flush(s) ==
    [blocks |-> IF s.title # None
                THEN Append(s.blocks, LessonBlock(Get(s.title), s.details))
                ELSE s.blocks,
     title |-> None, details |-> <<>>, has_week |-> FALSE]

\* title = stripped; has_week = _contains_week(stripped)
Start(s, stripped, contains_week) ==
    [s EXCEPT !.title = Some(stripped), !.has_week = contains_week]

\* MergeStripped with no boundary at a second week range
MergeStrippedByTitleOnly(s, stripped, contains_week) ==
    IF stripped = <<>> THEN s
    ELSE IF s.title = None THEN Start(s, stripped, contains_week)
    ELSE IF is_title(stripped) THEN Start(flush(s), stripped, contains_week)
    ELSE [s EXCEPT !.details = Append(@, stripped), !.has_week = @ \/ contains_week]

\* one turn of the loop, on the line stripped and on what _contains_week says
\* of it
MergeStripped(s, stripped, contains_week) ==
    IF stripped = <<>> THEN s
    ELSE IF s.title = None THEN Start(s, stripped, contains_week)
    ELSE IF is_title(stripped) THEN Start(flush(s), stripped, contains_week)
    ELSE IF contains_week /\ s.has_week THEN Start(flush(s), stripped, contains_week)
    ELSE [s EXCEPT !.details = Append(@, stripped), !.has_week = @ \/ contains_week]

MergeLine(s, line) == MergeStripped(s, strip(line), _contains_week(strip(line)))

RECURSIVE MergeLines(_, _)
MergeLines(s, lines) ==
    IF lines = <<>> THEN s ELSE MergeLines(MergeLine(s, Head(lines)), Tail(lines))

\* the locals of _merge_blocks before its loop
NoBlocks == [blocks |-> <<>>, title |-> None, details |-> <<>>, has_week |-> FALSE]

\* lines 344-350: the content is one block when the loop made none
BlocksOrContent(blocks, stripped) ==
    IF blocks # <<>> THEN blocks
    ELSE IF stripped = <<>> THEN <<>>
    ELSE <<LessonBlock(stripped, <<>>)>>

MergeBlocks(content) ==
    BlocksOrContent(
        flush(MergeLines(NoBlocks,
                         split(replace(content, <<"\r", "\n">>, <<"\n">>), "\n"))).blocks,
        strip(content))

\* cells of two lessons: a title line with a lesson-type marker and a week
\* range, a room line, and the same again
Title(text, from, to) == [text |-> text, from |-> from, to |-> to]
FirstTitles ==
    {Title(<<"L", "e", "k", "c", "i", "a", " ", "(", "l", "e", "k", ")", " ", "1", "-", "8", "n">>, 1, 8),
     Title(<<"M", "1", " ", "(", "l", "e", "k", ")", " ", "1", "-", "8", " ", "n">>, 1, 8),
     Title(<<"F", "i", "z", "i", "k", "a", " ", "(", "p", "r", "a", "k", ")", " ", "5", "n">>, 5, 5)}
SecondTitles ==
    {Title(<<"L", "a", "b", "o", "r", "a", "t", "o", "r", "n", "a", "a", " ", "(", "l", "a", "b", ")", " ", "9", "-", "1", "6", "n">>, 9, 16),
     Title(<<"(", "l", "a", "b", ")", " ", "9", " ", "-", " ", "1", "6", " ", "n">>, 9, 16),
     Title(<<"H", "i", "m", "i", "a", " ", "(", "s", "e", "m", ")", " ", "1", "2", "n">>, 12, 12)}
Rooms == {<<"a", "u", "d", " ", "2", "0", "5">>, <<"a", "u", "d", ".", " ", "2", "-", "1", "0">>}
Cell(t1, r1, t2, r2) == join(<<"\n">>, <<t1.text, r1, t2.text, r2>>)
TwoLessonCells ==
    {Cell(t1, r1, t2, r2) : t1 \in FirstTitles, r1 \in Rooms, t2 \in SecondTitles, r2 \in Rooms}
\* the cells of the workbooks, and the cells of two lessons
Contents ==
    TwoLessonCells
        \cup UNION {{sh.rows[i].content : i \in 1..Len(sh.rows)} : sh \in AllSheets}

\* the blocks of the cells, merged once
MergedBlocks == [content \in Contents |-> MergeBlocks(content)]

_merge_blocks(content) == MergedBlocks[content]

\* "\n".join([block.title, *block.details])
BlockText(block) == join(<<"\n">>, <<block.title>> \o block.details)

BlockTexts ==
    UNION {{BlockText(MergedBlocks[content][i]) : i \in 1..Len(MergedBlocks[content])} :
           content \in Contents}

\* the ranges of the texts of the blocks, collected once
CollectedRanges == [text \in BlockTexts |-> CollectRanges(text)]

all_ranges(text) == CollectedRanges[text]

\* _matches_week taking a text with no range for a text of no week
_matches_week_needing_range(text, current_week) ==
    LET Within(ranges) ==
            \E i \in 1..Len(ranges) :
                ranges[i][1] <= current_week /\ current_week <= ranges[i][2]
    IN Within(all_ranges(text))

_matches_week(text, current_week) ==
    LET Within(ranges) ==
            \/ ranges = <<>>
            \/ \E i \in 1..Len(ranges) :
                  ranges[i][1] <= current_week /\ current_week <= ranges[i][2]
    IN Within(all_ranges(text))

\* the bullet of the message is written "*"
_format_block(block) ==
    join(<<"\n">>, <<<<"*", " ", "<b>">> \o block.title \o <<"</b>">>>> \o block.details)



Raised == [ok |-> FALSE, val |-> <<>>]
Returned(v) == [ok |-> TRUE, val |-> v]
\* ValueError("Gruppa ... ne najdena. Dostupnye gruppy: ...")
RaisedGroupNotFound(available) == [ok |-> FALSE, val |-> <<available>>]

list_sheets(data) ==
    IF ~IsWorkbook(data) THEN Raised
    ELSE Returned([i \in 1..Len(Sheets(data)) |-> Sheets(data)[i].name])

\* read_excel names the column of an empty header cell by its index
ReadHeader(header) ==
    [i \in 1..Len(header) |->
        IF header[i] = <<>> THEN Unnamed \o <<":", " ", Digits[i]>> ELSE header[i]]

RenamedColumns(header) ==
    [i \in 1..Len(header) |-> _cleanup_column_name(ReadHeader(header)[i])]

IsNamed(column) == ~startswith(column, Unnamed)

\* the frame of the named columns
DataFrame(columns, rows) ==
    [columns |-> SelectSeq(columns, IsNamed),
     rows |-> SelectSeq([i \in 1..Len(rows) |-> [rows[i] EXCEPT !.column = columns[@]]],
                        LAMBDA row : IsNamed(row.column))]

ReadExcel(found) ==
    IF found = <<>> THEN Raised
    ELSE Returned(DataFrame(RenamedColumns(Head(found).header), Head(found).rows))

\* pd.read_excel(..., sheet_name=..., header=6), the columns renamed and the
\* unnamed ones dropped
LoadSheet(data, sheet_name) ==
    IF ~IsWorkbook(data) THEN Raised
    ELSE ReadExcel(SelectSeq(Sheets(data),
                             LAMBDA sh : sh.name = sheet_name /\ sh.loadable))

\* every sheet of every workbook, loaded once
LoadedSheets ==
    [data \in Workbooks, sheet_name \in {sh.name : sh \in AllSheets} |->
        LoadSheet(data, sheet_name)]

_load_sheet(data, sheet_name) == LoadedSheets[data, sheet_name]

list_groups(data, sheet_name) ==
    LET excluded == {DAY_COLUMN, TIME_COLUMN}
        Columns(df) ==
            IF df.ok
            THEN Returned(SelectSeq(df.val.columns,
                                    LAMBDA column : column \notin excluded))
            ELSE Raised
    IN Columns(_load_sheet(data, sheet_name))

\* raises when the day or the time column is missing
_normalize_schedule(df) ==
    IF DAY_COLUMN \in Range(df.columns) /\ TIME_COLUMN \in Range(df.columns)
    THEN Returned(df.rows)
    ELSE Raised

\* lines 67-80: the blocks of the week, or all of them when no week is given
matching_blocks(all_blocks, current_week) ==
    IF current_week = None THEN all_blocks
    ELSE SelectSeq(all_blocks,
                   LAMBDA block : _matches_week(BlockText(block), Get(current_week)))

\* lines 81-85
LessonOf(row, blocks) ==
    IF blocks = <<>> THEN <<>>
    ELSE <<[day |-> row.day, time |-> row.time,
            description |->
                join(<<"\n", "\n">>,
                     [i \in 1..Len(blocks) |-> _format_block(blocks[i])])]>>

\* the lesson of one (day, time) row for the group: none when the row is another
\* group's or another day's, or when no block of its cell is for the week
ExtractRow(row, group_name, day_filter, current_week) ==
    IF row.column # group_name \/ strip(row.content) = <<>> THEN <<>>
    ELSE IF day_filter # None /\ Get(day_filter) # row.day THEN <<>>
    ELSE LessonOf(row, matching_blocks(_merge_blocks(row.content), current_week))

RECURSIVE ExtractRows(_, _, _, _)
ExtractRows(rows, group_name, day_filter, current_week) ==
    IF rows = <<>> THEN <<>>
    ELSE ExtractRow(Head(rows), group_name, day_filter, current_week)
            \o ExtractRows(Tail(rows), group_name, day_filter, current_week)

\* lines 55-86
ExtractNormalized(normalized, group_name, day_filter, current_week) ==
    IF ~normalized.ok THEN Raised
    ELSE Returned(ExtractRows(normalized.val, group_name, day_filter, current_week))

ExtractUnchecked(df, group_name, day_filter, current_week) ==
    IF ~df.ok THEN Raised
    ELSE ExtractNormalized(_normalize_schedule(df.val), group_name, day_filter,
                           current_week)

\* lines 49-86
ExtractLoaded(df, group_name, day_filter, current_week) ==
    IF ~df.ok THEN Raised
    ELSE IF group_name \notin Range(df.val.columns)
         THEN RaisedGroupNotFound(df.val.columns)
    ELSE ExtractNormalized(_normalize_schedule(df.val), group_name, day_filter,
                           current_week)

\* extract_group_schedule without the check of the group's column
extract_group_schedule_unchecked(data, sheet_name, group_name, day_filter, current_week) ==
    ExtractUnchecked(_load_sheet(data, sheet_name), group_name, day_filter, current_week)

extract_group_schedule(data, sheet_name, group_name, day_filter, current_week) ==
    ExtractLoaded(_load_sheet(data, sheet_name), group_name, day_filter, current_week)

\* sheet.merged_cells.ranges over the sheets of the workbook
merged_ranges(data) == IF data = BookMerged THEN {"A8:A9"} ELSE {}

\* the bytes workbook.save writes once the ranges are unmerged and filled
BookSaved == "saved"
Save(data) == IF data = BookMerged THEN BookB ELSE BookSaved

\* process_workbook saving the workbook whether or not it changed
process_workbook_always_saving(data) ==
    IF ~IsWorkbook(data) THEN Raised ELSE Returned(Save(data))

process_workbook(data) ==
    IF ~IsWorkbook(data) THEN Raised
    ELSE IF merged_ranges(data) = {} THEN Returned(data)
    ELSE Returned(Save(data))

\* services/formatter.py: lessons ordered by day of the week, then by time
_day_index(day) == CASE day = "Mon" -> 0 [] day = "Tue" -> 1 [] OTHER -> 7

RECURSIVE format_lessons(_)
format_lessons(lessons) ==
    LET NotAfter(a, e) ==
            \/ _day_index(a.day) < _day_index(e.day)
            \/ _day_index(a.day) = _day_index(e.day) /\ a.time <= e.time
        Insert(r, e) ==
            SelectSeq(r, LAMBDA a : NotAfter(a, e)) \o <<e>>
                \o SelectSeq(r, LAMBDA a : ~NotAfter(a, e))
    IN IF lessons = <<>> THEN <<>>
       ELSE Insert(format_lessons(SubSeq(lessons, 1, Len(lessons) - 1)),
                   lessons[Len(lessons)])

-----------------------------------------------------------------------------
(* The department's page and its files (what the Fetcher sees) *)

\* the listing published in version v of the page
Listing(v) ==
    CASE v = 1 -> <<FileA1, FileB>>
      [] v = 2 -> <<FileB>>
      [] v = 3 -> <<FileA2, FileB>>
      [] OTHER -> <<FileB, FileA2>>

\* the bytes served at url u in version v (None: the server answers with an error status)
Remote(v, u) ==
    CASE u = "b" -> Some(BookMerged)
      [] u = "a" /\ v = 1 -> Some(BookA)
      [] u = "a" /\ v = 2 -> None
      [] OTHER -> Some(BookNoDay)

-----------------------------------------------------------------------------
(* handlers/schedule.py: the Resolver.  Each operator runs the code from one  *)
(* point up to the next suspension point (a network call or a disk read or     *)
(* write) or to the return, and yields the cache and the request's locals.     *)

_normalize_group(name) == StripUpper(name)

RECURSIVE _match_group(_, _)
_match_group(groups, target) ==
    IF groups = <<>> THEN None
    ELSE IF _normalize_group(Head(groups)) = target THEN Some(Head(groups))
         ELSE _match_group(Tail(groups), target)

RECURSIVE FirstMatchingSheet(_, _)
\* schedule.py 190-195: the first sheet of the metadata whose groups match
FirstMatchingSheet(metadata, target) ==
    LET Found(g) ==
            IF g # None THEN Some([sheet |-> Head(metadata).sheet, group |-> Get(g)])
            ELSE FirstMatchingSheet(Tail(metadata), target)
    IN IF metadata = <<>> THEN None
       ELSE Found(_match_group(Head(metadata).groups, target))

RECURSIVE BuildMetadata(_, _)
\* schedule.py 170-181: sheet -> groups, skipping the sheets list_groups fails on
BuildMetadata(content, sheets) ==
    LET Entry(g) == IF g.ok THEN <<[sheet |-> Head(sheets), groups |-> g.val]>> ELSE <<>>
    IN IF sheets = <<>> THEN <<>>
       ELSE Entry(list_groups(content, Head(sheets)))
                \o BuildMetadata(content, Tail(sheets))

\* ExtractWithRetry without the second extraction
ExtractWithoutRetry(content, sheet_name, group_name, day, current_week) ==
    extract_group_schedule(content, sheet_name, group_name, day, current_week)

\* schedule.py 106-120 and 209-223: extract for the week, again without it when empty
ExtractWithRetry(content, sheet_name, group_name, day, current_week) ==
    LET Retry(lessons, again) ==
            IF ~lessons.ok THEN Raised
            ELSE IF lessons.val # <<>> THEN lessons
            ELSE again
    IN Retry(extract_group_schedule(content, sheet_name, group_name, day, current_week),
             extract_group_schedule(content, sheet_name, group_name, day, None))

Result(kind, path, text, file, sheet, group) ==
    [kind |-> kind, path |-> path, text |-> text, file |-> file,
     sheet |-> sheet, group |-> group]

\* control points of a request: where it is suspended (or has returned), and the
\* points inside _find_group_schedule it runs through without suspending
Waiting == {"idle", "list", "disk", "download", "persist", "done"}

At(c, r, pc) == [cache |-> c, req |-> [r EXCEPT !.pc = pc]]

\* the request returns: its locals go out of scope, its result is kept
Finish(c, r, res) ==
    [cache |-> c,
     req |-> [r EXCEPT !.pc = "done", !.result = Some(res), !.stage = "",
                       !.loc = None, !.sheet = "", !.group = <<>>, !.content = "",
                       !.bytes = None, !.metadata = <<>>]]

\* schedule.py 87-103: the shortcut lookup that opens _find_group_schedule
EnterFind(c, r) ==
    LET Hits(loc) == IF loc = None THEN {}
                     ELSE {i \in 1..Len(r.files) : r.files[i].url = Get(loc).url}
        Located(g, hits) ==
            IF hits = {} THEN At(g.cache, [r EXCEPT !.idx = 1], "scan")
            ELSE At(g.cache,
                    [r EXCEPT !.stage = "shortcut", !.loc = g.ret,
                              !.idx = CHOOSE i \in hits : \A j \in hits : i <= j],
                    "get_bytes")
        Looked(g) == Located(g, Hits(g.ret))
    IN Looked(get_group_location(c, now, r.query))

ScanSkippingFirst(c, r) ==
    LET k == IF r.idx = 1 THEN 2 ELSE r.idx
        r1 == [r EXCEPT !.idx = k, !.loc = None, !.sheet = "", !.group = <<>>,
                        !.bytes = None, !.metadata = <<>>]
        Known(g) ==
            IF g.ret = None THEN At(g.cache, [r1 EXCEPT !.stage = "meta"], "get_bytes")
            ELSE At(g.cache, [r1 EXCEPT !.stage = "bytes", !.metadata = Get(g.ret)],
                    "step2")
    IN IF k > Len(r.files)
       THEN Finish(c, [r EXCEPT !.idx = 0],
                   Result("none", "scan", <<>>, NoFile, "", <<>>))
       ELSE Known(get_file_metadata(c, now, r.files[k].url))

\* schedule.py 140-152 and 243: the head of the loop over the files, at file r.idx
Scan(c, r) ==
    LET r1 == [r EXCEPT !.loc = None, !.sheet = "", !.group = <<>>,
                        !.bytes = None, !.metadata = <<>>]
        Known(g) ==
            IF g.ret = None THEN At(g.cache, [r1 EXCEPT !.stage = "meta"], "get_bytes")
            ELSE At(g.cache, [r1 EXCEPT !.stage = "bytes", !.metadata = Get(g.ret)],
                    "step2")
    IN IF r.idx > Len(r.files)
       THEN Finish(c, [r EXCEPT !.idx = 0],
                   Result("none", "scan", <<>>, NoFile, "", <<>>))
       ELSE Known(get_file_metadata(c, now, r.files[r.idx].url))

\* `continue`: on to the next file
Continue(c, r) == At(c, [r EXCEPT !.idx = @ + 1], "scan")

GetBytesSkippingDisk(c, r) ==
    LET Cached(g) ==
            IF g.ret # None THEN At(g.cache, [r EXCEPT !.bytes = g.ret], "got_bytes")
            ELSE At(g.cache, r, "download")
    IN Cached(get_file_content(c, now, r.files[r.idx].url))

\* schedule.py 361-377: _get_schedule_file_bytes up to its first suspension
GetBytes(c, r) ==
    LET u == r.files[r.idx].url
        Cached(g) ==
            IF g.ret # None THEN At(g.cache, [r EXCEPT !.bytes = g.ret], "got_bytes")
            ELSE IF DictHas(g.cache.disk, u) THEN At(g.cache, r, "disk")
            ELSE At(g.cache, r, "download")
    IN Cached(get_file_content(c, now, u))

AfterBytesAborting(c, r) ==
    IF r.bytes = None
    THEN Finish(c, [r EXCEPT !.idx = 0], Result("none", "scan", <<>>, NoFile, "", <<>>))
    ELSE At(c, r, IF r.stage = "bytes" THEN "step4" ELSE "scan")

\* what _find_group_schedule does with the bytes (or None) it asked for:
\* schedule.py 104-137 (shortcut), 155-184 (metadata), 204-206 (bytes of the match)
AfterBytes(c, r) ==
    LET file == r.files[r.idx]
        rf == [r EXCEPT !.failed = @ \cup {file.url}]
        Shortcut(lessons) ==
            IF lessons.ok /\ lessons.val # <<>>
            THEN Finish(c, r, Result("match", "shortcut", format_lessons(lessons.val),
                                     file, Get(r.loc).sheet, Get(r.loc).group))
            ELSE At(c, [r EXCEPT !.idx = 1, !.tried = r.loc,
                                 !.shortcut = IF lessons.ok THEN "empty" ELSE "raised"],
                    "scan")
        Cached(metadata) ==
            At(IF metadata # <<>> THEN set_file_metadata(c, now, file.url, metadata)
               ELSE c,
               [r EXCEPT !.metadata = metadata], "step2")
        Listed(sheets) ==
            IF ~sheets.ok THEN Continue(c, r)
            ELSE Cached(BuildMetadata(Get(r.bytes), sheets.val))
    IN CASE r.stage = "shortcut" ->
              IF r.bytes = None
              THEN At(c, [r EXCEPT !.idx = 1, !.tried = r.loc, !.shortcut = "nobytes"],
                      "scan")
              ELSE Shortcut(ExtractWithRetry(Get(r.bytes), Get(r.loc).sheet,
                                             Get(r.loc).group, r.day, r.week))
         [] r.stage = "meta" ->
              IF r.bytes = None THEN Continue(c, rf)
              ELSE Listed(list_sheets(Get(r.bytes)))
         [] OTHER ->
              IF r.bytes = None THEN Continue(c, rf) ELSE At(c, r, "step4")

\* Step2 asking for the bytes of the match whether or not it holds them
Step2Refetching(c, r) ==
    LET Matched(m) ==
            IF m = None THEN Continue(c, r)
            ELSE At(c, [r EXCEPT !.sheet = Get(m).sheet, !.group = Get(m).group,
                                 !.stage = "bytes"],
                    "get_bytes")
    IN Matched(FirstMatchingSheet(r.metadata, _normalize_group(r.query)))

\* schedule.py 186-206
Step2(c, r) ==
    LET Matched(m) ==
            IF m = None THEN Continue(c, r)
            ELSE At(c, [r EXCEPT !.sheet = Get(m).sheet, !.group = Get(m).group,
                                 !.stage = "bytes"],
                    IF r.bytes = None THEN "get_bytes" ELSE "step4")
    IN Matched(FirstMatchingSheet(r.metadata, _normalize_group(r.query)))

\* Step4 recording the group as the user typed it
Step4RecordingQuery(c, r) ==
    LET file == r.files[r.idx]
        Found(lessons) ==
            IF ~lessons.ok
            THEN Finish(c, r, Result("raised", "scan", <<>>, file, r.sheet, r.group))
            ELSE IF lessons.val = <<>> THEN Continue(c, r)
            ELSE Finish(set_group_location(c, now, r.query, file.url, r.sheet, r.query),
                        r, Result("match", "scan", format_lessons(lessons.val), file,
                                  r.sheet, r.group))
    IN Found(ExtractWithRetry(Get(r.bytes), r.sheet, r.group, r.day, r.week))

\* schedule.py 208-241
Step4(c, r) ==
    LET file == r.files[r.idx]
        Found(lessons) ==
            IF ~lessons.ok
            THEN Finish(c, r, Result("raised", "scan", <<>>, file, r.sheet, r.group))
            ELSE IF lessons.val = <<>> THEN Continue(c, r)
            ELSE Finish(set_group_location(c, now, r.query, file.url, r.sheet, r.group),
                        r, Result("match", "scan", format_lessons(lessons.val), file,
                                  r.sheet, r.group))
    IN Found(ExtractWithRetry(Get(r.bytes), r.sheet, r.group, r.day, r.week))

\* history: the calls of _get_schedule_file_bytes the scan has made (schedule.py
\* 153 and 202), each with the place of its file in the listing, whether the
\* metadata of the file came from the cache and whether they list the group
Acquiring(r) ==
    IF r.stage = "shortcut" THEN r
    ELSE [r EXCEPT !.acquired =
             Append(@, [idx |-> r.idx,
                        cached |-> r.stage = "bytes",
                        listed |-> FirstMatchingSheet(r.metadata,
                                                      _normalize_group(r.query)) # None])]

RECURSIVE Run(_)
\* the request runs on from its control point to its next suspension or its return
Run(o) ==
    IF o.req.pc \in Waiting THEN [o EXCEPT !.req.bytes = None, !.req.metadata = <<>>]
    ELSE Run(CASE o.req.pc = "find" -> EnterFind(o.cache, o.req)
               [] o.req.pc = "scan" -> Scan(o.cache, o.req)
               [] o.req.pc = "get_bytes" -> GetBytes(o.cache, Acquiring(o.req))
               [] o.req.pc = "got_bytes" -> AfterBytes(o.cache, o.req)
               [] o.req.pc = "step2" -> Step2(o.cache, o.req)
               [] OTHER -> Step4(o.cache, o.req))

\* schedule.py 464-470 and 255-271: an empty listing ends the request
WithFiles(c, r, files) ==
    IF files = <<>>
    THEN Finish(c, r, Result("nofiles", "", <<>>, NoFile, "", <<>>))
    ELSE Run(At(c, [r EXCEPT !.files = files], "find"))

\* _ensure_schedule_files (schedule.py 416-420): the cached listing, or the fetcher
WithCachedFiles(c, r, files) ==
    IF files = None THEN At(c, r, "list") ELSE WithFiles(c, r, Get(files))

\* _get_schedule_file_bytes (schedule.py 369-377) once the disk read has returned
AfterDiskRead(c, r, u, stored) ==
    IF stored = None THEN At(c, r, "download")
    ELSE Run(At(set_file_content(c, now, u, Get(stored), FALSE),
                [r EXCEPT !.bytes = stored], "got_bytes"))

\* _get_schedule_file_bytes (schedule.py 401-413) once the download has returned
AfterDownload(c, r, u, p) ==
    IF ~p.ok THEN Run(At(c, r, "got_bytes"))
    ELSE At(StoreInMemory(c, now, u, p.val), [r EXCEPT !.content = p.val], "persist")

\* process_workbook on what the site serves, raising where it serves nothing
ProcessRemote(raw) == IF raw = None THEN Raised ELSE process_workbook(Get(raw))

\* the step leaves the cache and the request as o has them
ReqBecomes(o) == cache' = o.cache /\ req' = o.req

\* watchers owed a notification once update_file_list has reported `changed`
OwedAfterUpdate(c, changed) ==
    IF changed /\ c.file_list_signature # None THEN owed \cup c.watchers ELSE owed

Step(name) == [NoLast EXCEPT !.op = name]

RequestQueries == {<<"g", " ", "1">>, G3}
RequestDays == {None, Some("Tue")}
RequestWeeks == {Some(2)}

\* handle_schedule (schedule.py 29-78) up to the first suspension point
StartRequestOn(days) ==
    /\ req.pc \in {"idle", "done"}
    /\ \E chat \in Chats, q \in RequestQueries, day \in days, week \in RequestWeeks :
         ReqBecomes(WithCachedFiles(add_watcher(cache, chat),
                                    [IdleReq EXCEPT !.query = q, !.day = day,
                                                    !.week = week],
                                    get_file_list(add_watcher(cache, chat), now)))
    /\ last' = Step("StartRequest")
    /\ UNCHANGED <<now, site, mon, users, inserted, owed>>

StartRequest == StartRequestOn(RequestDays)

\* a request for any day of the sheets, or for no day in particular
StartRequestAnyDay == StartRequestOn({None, Some("Mon"), Some("Tue")})

\* _ensure_schedule_files (schedule.py 421-425): fetcher.list_schedule_files returns
ReqList ==
    /\ req.pc = "list"
    /\ LET Updated(u) ==
               /\ ReqBecomes(WithFiles(u.cache, req, Listing(site)))
               /\ owed' = OwedAfterUpdate(cache, u.ret)
       IN Updated(update_file_list(cache, now, Listing(site)))
    /\ last' = Step("ReqList")
    /\ UNCHANGED <<now, site, mon, users, inserted>>

\* _ensure_schedule_files (schedule.py 426-462): fetcher.list_schedule_files raises a
\* connection error ("transient") or another error; the user is told and None returned
ReqListFails ==
    /\ req.pc = "list"
    /\ \E outcome \in {"transient", "http"} :
         ReqBecomes(Finish(cache, req,
                           Result("unavailable", outcome, <<>>, NoFile, "", <<>>)))
    /\ last' = Step("ReqListFails")
    /\ UNCHANGED <<now, site, mon, users, inserted, owed>>

\* _get_schedule_file_bytes (schedule.py 369-373): the disk read returns
ReqDiskRead ==
    /\ req.pc = "disk"
    /\ ReqBecomes(AfterDiskRead(cache, req, req.files[req.idx].url,
                                load_file_from_disk(cache, req.files[req.idx].url)))
    /\ last' = Step("ReqDiskRead")
    /\ UNCHANGED <<now, site, mon, users, inserted, owed>>

\* _get_schedule_file_bytes (schedule.py 376-413): fetcher.download returns (or raises
\* on an error status); the workbook is processed and stored in memory, the disk
\* write is awaited
ReqDownload ==
    /\ req.pc = "download"
    /\ ReqBecomes(AfterDownload(cache, req, req.files[req.idx].url,
                                ProcessRemote(Remote(site, req.files[req.idx].url))))
    /\ last' = Step("ReqDownload")
    /\ UNCHANGED <<now, site, mon, users, inserted, owed>>

\* _get_schedule_file_bytes (schedule.py 378-400): fetcher.download raises a connection error
ReqDownloadFails ==
    /\ req.pc = "download"
    /\ ReqBecomes(Run(At(cache, req, "got_bytes")))
    /\ last' = Step("ReqDownloadFails")
    /\ UNCHANGED <<now, site, mon, users, inserted, owed>>

\* set_file_content_async (cache.py 236-237): the disk write is done
ReqPersist ==
    /\ req.pc = "persist"
    /\ ReqBecomes(Run(At(_persist_file(cache, req.files[req.idx].url, req.content),
                         [req EXCEPT !.content = "", !.bytes = Some(req.content)],
                         "got_bytes")))
    /\ last' = Step("ReqPersist")
    /\ UNCHANGED <<now, site, mon, users, inserted, owed>>

-----------------------------------------------------------------------------
(* services/monitor.py: the Monitor *)

max_consecutive_errors == 5

\* bot.py 55: monitor_updates(bot, interval_minutes=60)
interval_minutes == 60

\* monitor.py 22: max(60, int(interval_minutes * 60))
interval_seconds == IF interval_minutes * 60 > 60 THEN interval_minutes * 60 ELSE 60

\* monitor.py 47: min(interval_seconds * 2, 600)
extended_wait == IF interval_seconds * 2 < 600 THEN interval_seconds * 2 ELSE 600

\* the Monitor goes to sleep: the locals of the cycle go out of scope
Sleep(c, m, pc) ==
    [cache |-> c,
     mon |-> [IdleMon EXCEPT !.pc = pc, !.consecutive_errors = m.consecutive_errors,
                             !.wait = interval_seconds]]

\* AfterPreload without the test of previous_signature
AfterPreloadAnyChange(c, m) ==
    IF m.changed /\ get_watchers(c) # {}
    THEN [cache |-> c,
          mon |-> [m EXCEPT !.pc = "notify", !.idx = 0, !.pending = get_watchers(c)]]
    ELSE Sleep(c, m, "poll")

\* monitor.py 35-36 and 135-139: after the preload, notify when the listing changed
AfterPreload(c, m) ==
    IF m.changed /\ m.previous_signature # None /\ get_watchers(c) # {}
    THEN [cache |-> c,
          mon |-> [m EXCEPT !.pc = "notify", !.idx = 0, !.pending = get_watchers(c)]]
    ELSE Sleep(c, m, "poll")

\* monitor.py 81-93: _preload_files from file i on, up to the next suspension point
Preload(c, m, i) ==
    IF i > Len(m.files) THEN AfterPreload(c, m)
    ELSE IF DictHas(c.disk, m.files[i].url)
         THEN [cache |-> c, mon |-> [m EXCEPT !.pc = "disk", !.idx = i]]
         ELSE [cache |-> c, mon |-> [m EXCEPT !.pc = "download", !.idx = i]]

\* the step leaves the cache and the Monitor as o has them
MonBecomes(o) == cache' = o.cache /\ mon' = o.mon

\* monitor.py 26-36: the sleep ends and fetcher.list_schedule_files returns
MonPoll ==
    /\ mon.pc = "poll"
    /\ LET files == Listing(site)
           Updated(u) ==
               /\ MonBecomes(Preload(u.cache,
                                     [mon EXCEPT
                                        !.wait = 0,
                                        !.files = files, !.consecutive_errors = 0,
                                        !.previous_signature =
                                            get_file_list_signature(cache),
                                        !.changed = u.ret],
                                     1))
               /\ owed' = OwedAfterUpdate(cache, u.ret)
       IN Updated(update_file_list(cache, now, files))
    /\ last' = Step("MonPoll")
    /\ UNCHANGED <<now, site, req, users, inserted>>

\* MonPollFails without the handlers of monitor.py 56-72: an error that is not a
\* connection error ends the task
MonPollFailsFatal ==
    /\ mon.pc = "poll"
    /\ \E outcome \in {"transient", "http"} :
         IF outcome = "transient"
         THEN mon' = [mon EXCEPT
                        !.consecutive_errors = @ + 1,
                        !.pc = IF mon.consecutive_errors + 1 >= max_consecutive_errors
                               THEN "extended_wait" ELSE "poll",
                        !.wait = IF mon.consecutive_errors + 1 >= max_consecutive_errors
                                 THEN extended_wait ELSE interval_seconds]
         ELSE mon' = [mon EXCEPT !.pc = "stopped"]
    /\ last' = Step("MonPollFails")
    /\ UNCHANGED <<cache, now, site, req, users, inserted, owed>>

\* monitor.py 37-72: the sleep ends and fetcher.list_schedule_files raises a connection
\* error ("transient") or another error
MonPollFails ==
    /\ mon.pc = "poll"
    /\ \E outcome \in {"transient", "http"} :
         IF outcome = "transient"
         THEN mon' = [mon EXCEPT
                        !.consecutive_errors = @ + 1,
                        !.pc = IF mon.consecutive_errors + 1 >= max_consecutive_errors
                               THEN "extended_wait" ELSE "poll",
                        !.wait = IF mon.consecutive_errors + 1 >= max_consecutive_errors
                                 THEN extended_wait ELSE interval_seconds]
         ELSE /\ mon.consecutive_errors < max_consecutive_errors
              /\ mon' = [mon EXCEPT !.consecutive_errors = @ + 1,
                                    !.wait = interval_seconds]
    /\ last' = Step("MonPollFails")
    /\ UNCHANGED <<cache, now, site, req, users, inserted, owed>>

\* monitor.py 52-54: the extended wait is over
MonExtendedWait ==
    /\ mon.pc = "extended_wait"
    /\ mon' = [mon EXCEPT !.pc = "poll", !.consecutive_errors = 0, !.wait = 0]
    /\ last' = Step("MonExtendedWait")
    /\ UNCHANGED <<cache, now, site, req, users, inserted, owed>>

\* monitor.py 88-93: the disk read returns
MonDiskRead ==
    /\ mon.pc = "disk"
    /\ LET u == mon.files[mon.idx].url
           only_missing == ~mon.changed
           Read(stored) ==
               IF stored = None
               THEN [cache |-> cache, mon |-> [mon EXCEPT !.pc = "download"]]
               ELSE Preload(IF ~only_missing
                            THEN set_file_content(cache, now, u, Get(stored), FALSE)
                            ELSE cache,
                            mon, mon.idx + 1)
       IN MonBecomes(Read(load_file_from_disk(cache, u)))
    /\ last' = Step("MonDiskRead")
    /\ UNCHANGED <<now, site, req, users, inserted, owed>>

\* monitor.py 94-132: fetcher.download returns (or raises on an error status); the
\* workbook is processed and stored in memory, the disk write is awaited
MonDownload ==
    /\ mon.pc = "download"
    /\ LET u == mon.files[mon.idx].url
           Processed(p) ==
               IF ~p.ok THEN Preload(cache, mon, mon.idx + 1)
               ELSE [cache |-> StoreInMemory(cache, now, u, p.val),
                     mon |-> [mon EXCEPT !.pc = "persist", !.content = p.val]]
           Downloaded(raw) ==
               Processed(IF raw = None THEN Raised ELSE process_workbook(Get(raw)))
       IN MonBecomes(Downloaded(Remote(site, u)))
    /\ last' = Step("MonDownload")
    /\ UNCHANGED <<now, site, req, users, inserted, owed>>

\* monitor.py 96-104: fetcher.download raises a connection error; the file is skipped
MonDownloadFails ==
    /\ mon.pc = "download"
    /\ MonBecomes(Preload(cache, mon, mon.idx + 1))
    /\ last' = Step("MonDownloadFails")
    /\ UNCHANGED <<now, site, req, users, inserted, owed>>

\* set_file_content_async (cache.py 236-237): the disk write is done
MonPersist ==
    /\ mon.pc = "persist"
    /\ MonBecomes(Preload(_persist_file(cache, mon.files[mon.idx].url, mon.content),
                          [mon EXCEPT !.content = ""], mon.idx + 1))
    /\ last' = Step("MonPersist")
    /\ UNCHANGED <<now, site, req, users, inserted, owed>>

\* the date a listing title carries ("... ot 01.09.2025"), if it carries one
TitleDate(title) ==
    CASE title = "t1" -> Some("01")
      [] title = "t2" -> Some("02")
      [] OTHER -> None

\* monitor.py 156-160
_format_title(title) ==
    IF TitleDate(title) # None THEN <<"ot", Get(TitleDate(title))>> ELSE <<title>>

\* monitor.py 141-145: the text of the notification, built from the first file
Message(files) ==
    IF files = <<>> THEN <<"updated">>
    ELSE <<"updated:">> \o _format_title(files[1].title)

\* what bot.send_message does: it returns, raises because the user blocked the bot,
\* or raises because of a network failure
Deliveries == {"sent", "blocked", "transient"}

\* monitor.py 150: except Exception
DeliveryRaised(outcome) == outcome # "sent"

\* MonNotify with the try around the loop instead of inside it: the first delivery
\* that raises ends the fan-out
MonNotifyAborting ==
    /\ mon.pc = "notify"
    /\ \E chat_id \in mon.pending, outcome \in Deliveries :
         LET c1 == IF DeliveryRaised(outcome) THEN remove_watcher(cache, chat_id)
                   ELSE cache
             m == [mon EXCEPT !.pending = IF DeliveryRaised(outcome) THEN {}
                                          ELSE @ \ {chat_id}]
         IN /\ MonBecomes(IF m.pending = {} THEN Sleep(c1, m, "poll")
                          ELSE [cache |-> c1, mon |-> m])
            /\ users' = IF DeliveryRaised(outcome) THEN users \ {chat_id} ELSE users
            /\ owed' = owed \ {chat_id}
            /\ last' = [Step("MonNotify") EXCEPT !.chat = chat_id, !.outcome = outcome,
                                                 !.message = Message(mon.files)]
    /\ UNCHANGED <<now, site, req, inserted>>

\* monitor.py 147-153: bot.send_message to one watcher returns or raises
MonNotify ==
    /\ mon.pc = "notify"
    /\ \E chat_id \in mon.pending, outcome \in Deliveries :
         LET c1 == IF DeliveryRaised(outcome) THEN remove_watcher(cache, chat_id)
                   ELSE cache
             m == [mon EXCEPT !.pending = @ \ {chat_id}]
         IN /\ MonBecomes(IF m.pending = {} THEN Sleep(c1, m, "poll")
                          ELSE [cache |-> c1, mon |-> m])
            /\ users' = IF DeliveryRaised(outcome) THEN users \ {chat_id} ELSE users
            /\ owed' = owed \ {chat_id}
            /\ last' = [Step("MonNotify") EXCEPT !.chat = chat_id, !.outcome = outcome,
                                                 !.message = Message(mon.files)]
    /\ UNCHANGED <<now, site, req, inserted>>

-----------------------------------------------------------------------------
(* The disk write of _persist_file_async in its two awaited steps, and the shutdown *)

\* cache.py 137: the request's aiofiles.open(path, 'wb') returns
ReqOpenForWrite ==
    /\ req.pc = "persist"
    /\ cache' = _persist_file_open(cache, req.files[req.idx].url)
    /\ req' = [req EXCEPT !.pc = "write"]
    /\ last' = Step("ReqOpenForWrite")
    /\ UNCHANGED <<now, site, mon, users, inserted, owed>>

\* cache.py 138: the request's f.write(content) returns
ReqWrite ==
    /\ req.pc = "write"
    /\ ReqBecomes(Run(At(_persist_file(cache, req.files[req.idx].url, req.content),
                         [req EXCEPT !.content = "", !.bytes = Some(req.content)],
                         "got_bytes")))
    /\ last' = Step("ReqWrite")
    /\ UNCHANGED <<now, site, mon, users, inserted, owed>>

\* cache.py 137: the Monitor's aiofiles.open(path, 'wb') returns
MonOpenForWrite ==
    /\ mon.pc = "persist"
    /\ cache' = _persist_file_open(cache, mon.files[mon.idx].url)
    /\ mon' = [mon EXCEPT !.pc = "write"]
    /\ last' = Step("MonOpenForWrite")
    /\ UNCHANGED <<now, site, req, users, inserted, owed>>

\* cache.py 138: the Monitor's f.write(content) returns
MonWrite ==
    /\ mon.pc = "write"
    /\ MonBecomes(Preload(_persist_file(cache, mon.files[mon.idx].url, mon.content),
                          [mon EXCEPT !.content = ""], mon.idx + 1))
    /\ last' = Step("MonWrite")
    /\ UNCHANGED <<now, site, req, users, inserted, owed>>

\* bot.py 67: monitor_task.cancel() at the suspension point the Monitor is waiting at.
\* The call it was awaiting runs in a worker thread: cancelled while waiting for
\* aiofiles.open, the file is left untouched or truncated; cancelled while waiting
\* for f.write, the worker thread finishes the write.
MonCancel ==
    /\ mon.pc # "cancelled"
    /\ \E opened \in BOOLEAN :
         cache' = CASE mon.pc = "persist" /\ opened ->
                           _persist_file_open(cache, mon.files[mon.idx].url)
                    [] mon.pc = "write" ->
                           _persist_file(cache, mon.files[mon.idx].url, mon.content)
                    [] OTHER -> cache
    /\ mon' = [IdleMon EXCEPT !.pc = "cancelled"]
    /\ last' = Step("MonCancel")
    /\ UNCHANGED <<now, site, req, users, inserted, owed>>

-----------------------------------------------------------------------------
(* The whole bot: the Monitor, one request at a time, the clock and the site *)

\* the site publishes a new version of its listing
EditSite ==
    /\ site < 1 + MaxEdits
    /\ site' = site + 1
    /\ last' = Step("EditSite")
    /\ UNCHANGED <<cache, now, mon, req, users, inserted, owed>>

\* deps.py 17-33: the cache as constructed, its watchers loaded from the stored users
Init ==
    /\ cache = [NewCache EXCEPT !.watchers = {1}]
    /\ now = 0
    /\ site = 1
    /\ mon = IdleMon
    /\ req = IdleReq
    /\ users = {1}
    /\ last = NoLast
    /\ inserted = <<>>
    /\ owed = {}

\* the bot on a network that answers
Next ==
    \/ Tick
    \/ EditSite
    \/ StartRequest
    \/ ReqList
    \/ ReqDiskRead
    \/ ReqDownload
    \/ ReqPersist
    \/ MonPoll
    \/ MonDiskRead
    \/ MonDownload
    \/ MonPersist
    \/ MonNotify

Spec == Init /\ [][Next]_vars

\* requests alone against a site that does not change, on a network that may fail
NextResolver ==
    \/ Tick
    \/ StartRequest
    \/ ReqList
    \/ ReqListFails
    \/ ReqDiskRead
    \/ ReqDownload
    \/ ReqDownloadFails
    \/ ReqPersist

SpecResolver == Init /\ [][NextResolver]_vars

\* requests alone against a site that does not change, on a network that answers
NextReliable ==
    \/ Tick
    \/ StartRequest
    \/ ReqList
    \/ ReqDiskRead
    \/ ReqDownload
    \/ ReqPersist

SpecReliable == Init /\ [][NextReliable]_vars

\* the Monitor alone, on a network that may fail
NextMonitor ==
    \/ Tick
    \/ EditSite
    \/ MonPoll
    \/ MonPollFails
    \/ MonExtendedWait
    \/ MonDiskRead
    \/ MonDownload
    \/ MonDownloadFails
    \/ MonPersist
    \/ MonNotify

SpecMonitor == Init /\ [][NextMonitor]_vars

\* the bot on a network that answers and a site that keeps its listing, the disk
\* writes in two steps, until shutdown
NextDisk ==
    \/ Tick
    \/ StartRequest
    \/ ReqList
    \/ ReqDiskRead
    \/ ReqDownload
    \/ ReqOpenForWrite
    \/ ReqWrite
    \/ MonPoll
    \/ MonDiskRead
    \/ MonDownload
    \/ MonOpenForWrite
    \/ MonWrite
    \/ MonCancel

SpecDisk == Init /\ [][NextDisk]_vars

\* the site replaces its listing by another one
Publish ==
    /\ \E v \in 1..MaxVersion : v # site /\ site' = v
    /\ last' = Step("Publish")
    /\ UNCHANGED <<cache, now, mon, req, users, inserted, owed>>

\* deps.py 17-33: the cache as constructed, with two stored users as its watchers
InitNotify ==
    /\ cache = [NewCache EXCEPT !.watchers = Subscribers]
    /\ now = 0
    /\ site = 1
    /\ mon = IdleMon
    /\ req = IdleReq
    /\ users = Subscribers
    /\ last = NoLast
    /\ inserted = <<>>
    /\ owed = {}

\* the Monitor with two watchers, on a site that publishes any of its listings
NextNotify ==
    \/ Tick
    \/ Publish
    \/ MonPoll
    \/ MonPollFails
    \/ MonExtendedWait
    \/ MonDiskRead
    \/ MonDownload
    \/ MonDownloadFails
    \/ MonPersist
    \/ MonNotify

SpecNotify == InitNotify /\ [][NextNotify]_vars

\* a step of the Monitor task
MonSteps ==
    \/ MonPoll
    \/ MonPollFails
    \/ MonExtendedWait
    \/ MonDiskRead
    \/ MonDownload
    \/ MonDownloadFails
    \/ MonPersist
    \/ MonNotify

\* the Monitor alone, on an event loop that runs it whenever the sleep, the network
\* call or the disk call it waits for is over
SpecMonitorFair == Init /\ [][NextMonitor]_vars /\ WF_vars(MonSteps)

\* requests one after the other, for every day, on a network that may fail
NextWeeks ==
    \/ Tick
    \/ StartRequestAnyDay
    \/ ReqList
    \/ ReqListFails
    \/ ReqDiskRead
    \/ ReqDownload
    \/ ReqDownloadFails
    \/ ReqPersist

SpecWeeks == Init /\ [][NextWeeks]_vars

-----------------------------------------------------------------------------
(* Claims about the cache interface *)

CachedBytes(c) ==
    SeqSum([i \in 1..Len(c.file_content_cache) |-> BookLen(c.file_content_cache[i].content)])

IsSetOp(op) == op \in {"set_file_content", "set_file_content_async"}

\* C2: after any sequence of raw-byte cache operations the byte lengths of the
\* entries held in memory sum to at most the byte budget.
C2_ByteBudget == CachedBytes(cache) <= MaxCacheSize

\* a set call has just pushed the cache over the budget and an older entry was evicted
C2_Witness ==
    /\ IsSetOp(last.op)
    /\ last.evicted # {}
    /\ cache.file_content_cache # <<>>

RECURSIVE NewestUpToBudget(_, _)
\* the most recently inserted entries, taken newest first, while they fit
NewestUpToBudget(ins, room) ==
    IF ins = <<>> THEN {}
    ELSE LET e == ins[Len(ins)]
         IN IF e.len <= room
            THEN {e.url} \cup NewestUpToBudget(SubSeq(ins, 1, Len(ins) - 1), room - e.len)
            ELSE {}

\* C3 as stated: after any sequence of set and get calls the surviving entries
\* are exactly the most recently inserted entries, newest first, up to the budget.
C3_SurvivorsAreNewestUpToBudget ==
    DictKeys(cache.file_content_cache) = NewestUpToBudget(inserted, MaxCacheSize)

\* insertion time of the entry of url u that a set call at `now` for last'.url evicted
EvictedTime(u) ==
    IF u = last'.url THEN now ELSE DictGet(cache.file_content_cache, u).time

\* C3 (amended): budget eviction is oldest-inserted-first and independent of
\* reads: every entry a set call evicts was inserted no later than every entry
\* that survives the call, and a get_file_content hit changes no entry and no
\* insertion time.
C3_EvictionOldestFirst ==
    [][/\ IsSetOp(last'.op) =>
            \A u \in last'.evicted :
                \A i \in 1..Len(cache'.file_content_cache) :
                    EvictedTime(u) <= cache'.file_content_cache[i].time
       /\ (last'.op = "get_file_content" /\ last'.got # None) =>
            cache'.file_content_cache = cache.file_content_cache]_vars

\* a set call evicted an entry and another entry survived it
C3_Witness ==
    /\ IsSetOp(last.op)
    /\ last.evicted # {}
    /\ last.url \notin last.evicted
    /\ last.url \in DictKeys(cache.file_content_cache)

\* C5: when update_file_list returns after a call whose listing no longer has
\* URL u, no group-location shortcut points at u.
C5_DelistedUrlHasNoShortcut ==
    last.op = "update_file_list" =>
        \A u \in last.delisted : u \notin DictKeys(cache.group_location_cache)

\* update_file_list removed a shortcut that pointed at a URL the new listing dropped
C5_Witness ==
    /\ last.op = "update_file_list"
    /\ last.delisted \cap last.droppedLoc # {}

SignatureDiffers(files, sig) ==
    \/ sig = None
    \/ Len(Get(sig)) # Len(files)
    \/ \E i \in 1..Len(files) :
          \/ Get(sig)[i][1] # files[i].url
          \/ Get(sig)[i][2] # files[i].title

Layers(c) ==
    <<c.file_content_cache, c.file_metadata_cache, c.group_location_cache, c.disk>>

-----------------------------------------------------------------------------
(* Claims about the Resolver and the Monitor *)

\* the bytes a download of file u yields now, processed
Fresh(u) ==
    IF Remote(site, u) = None THEN Raised ELSE process_workbook(Get(Remote(site, u)))

\* the sheet -> groups metadata of the file at u, built from its bytes
FileMetadata(u) ==
    IF Fresh(u).ok /\ list_sheets(Fresh(u).val).ok
    THEN BuildMetadata(Fresh(u).val, list_sheets(Fresh(u).val).val)
    ELSE <<>>

\* the first sheet of the file at u with a header equal to the normalized query
MatchIn(u, query) == FirstMatchingSheet(FileMetadata(u), _normalize_group(query))

RECURSIVE FullScan(_, _, _, _, _)
\* the full scan of schedule.py 140-243 from file i on, with every file's bytes at hand
FullScan(files, i, query, day, week) ==
    IF i > Len(files) THEN Result("none", "scan", <<>>, NoFile, "", <<>>)
    ELSE LET m == MatchIn(files[i].url, query)
         IN IF ~Fresh(files[i].url).ok \/ m = None
            THEN FullScan(files, i + 1, query, day, week)
            ELSE LET lessons == ExtractWithRetry(Fresh(files[i].url).val, Get(m).sheet,
                                                 Get(m).group, day, week)
                 IN IF ~lessons.ok
                    THEN Result("raised", "scan", <<>>, files[i], Get(m).sheet, Get(m).group)
                    ELSE IF lessons.val = <<>>
                    THEN FullScan(files, i + 1, query, day, week)
                    ELSE Result("match", "scan", format_lessons(lessons.val), files[i],
                                Get(m).sheet, Get(m).group)

Answered == req.pc = "done" /\ req.result # None
Answer == Get(req.result)

\* C1: once a listing change has been observed (update_file_list reported a change
\* against a recorded signature), the watchers of that moment are sent a
\* notification, whichever path observed it.  Finite form: when the Monitor is
\* between cycles and the recorded signature is that of the published listing (so
\* no later poll will see a change), no watcher is still owed a notification.
C1_ChangeIsNotified ==
    (mon.pc = "poll" /\ cache.file_list_signature = Some(Signature(Listing(site))))
        => owed = {}

C7_StaleListingServed ==
    (last.op = "ReqListFails" /\ Answered /\ Answer.path = "transient")
        => get_file_list_stale(cache) = None

PassedOver(j) ==
    LET u == req.files[j].url
        m == MatchIn(u, req.query)
    IN \/ u \in req.failed
       \/ m = None
       \/ ExtractWithRetry(Fresh(u).val, Get(m).sheet, Get(m).group, req.day, req.week)
              = Returned(<<>>)

-----------------------------------------------------------------------------
(* Claims about _get_schedule_file_bytes and the pre-warm *)

\* the URL whose bytes the request is waiting for
ReqUrl(r) == r.files[r.idx].url

MemoryHolds(c, u, content) ==
    DictHas(c.file_content_cache, u) /\ DictGet(c.file_content_cache, u).content = content

DiskHolds(c, u, content) ==
    DictHas(c.disk, u) /\ DictGet(c.disk, u).content = content

DownloadFailed ==
    \/ last'.op = "ReqDownloadFails"
    \/ last'.op = "ReqDownload" /\ ~Fresh(ReqUrl(req)).ok

\* C12: when the download fails, no memory or disk entry is added or altered, and
\* the request goes on: a failure inside the scan marks the file as passed over
\* and moves to a later file (or ends the scan with no match when it was the last),
\* a failure on the shortcut path leaves the shortcut for the scan.
C12_DownloadFailureIsLocal ==
    [][DownloadFailed =>
         /\ cache'.disk = cache.disk
         /\ Range(cache'.file_content_cache) \subseteq Range(cache.file_content_cache)
         /\ req.stage \in {"meta", "bytes"} =>
              /\ ReqUrl(req) \in req'.failed
              /\ \/ req'.idx > req.idx
                 \/ req'.pc = "done" /\ Get(req'.result).kind = "none"
         /\ req.stage = "shortcut" => req'.stage # "shortcut"]_vars

\* the download of the first file failed and the scan went on to the second
C12_Witness ==
    /\ last.op = "ReqDownloadFails"
    /\ req.failed = {"a"}
    /\ req.idx = 2
    /\ req.pc \in {"disk", "download"}

\* the step is one of the Monitor's and leaves it waiting for a download
MonStartsDownload ==
    /\ last'.op \in {"MonPoll", "MonDiskRead", "MonDownload", "MonDownloadFails", "MonPersist"}
    /\ mon'.pc = "download"
    /\ mon' # mon

CompleteContent(u, content) ==
    \E v \in 1..(1 + MaxEdits) :
        /\ Remote(v, u) # None
        /\ process_workbook(Get(Remote(v, u))) = Returned(content)

\* a task is between aiofiles.open and the end of f.write for the file of u
Writing(u) ==
    \/ req.pc = "write" /\ ReqUrl(req) = u
    \/ mon.pc = "write" /\ mon.files[mon.idx].url = u

C14_MemoryHoldsCompleteBytes ==
    \A e \in Range(cache.file_content_cache) : CompleteContent(e.url, e.content)

(* Claims about monitor_updates *)

\* C15: whatever happened in the cycles so far (listing errors of either kind,
\* failed downloads, failed deliveries), the Monitor polls the listing again.
C15_MonitorKeepsPolling == []<><<MonPoll \/ MonPollFails>>_vars

\* the last download of a cycle failed and the Monitor is asleep until the next poll
C15_Witness ==
    /\ last.op = "MonDownloadFails"
    /\ mon.pc = "poll"

\* C16: the sleep that follows the fifth consecutive transient listing failure is
\* longer than the normal poll interval.
C16_ExtendedWaitIsLonger ==
    mon.pc = "extended_wait" => mon.wait > interval_seconds

(* Claims about _notify_about_update *)

\* C17: the fan-out starts with every watcher pending; each delivery goes to a
\* watcher still pending and takes it, and nobody else, off the pending set; a
\* delivery that raises removes that watcher and its stored user and leaves the
\* other watchers and users alone; the fan-out ends only when nobody is pending.
C17_FanOutContinues ==
    [][/\ (mon.pc # "notify" /\ mon'.pc = "notify") =>
            /\ mon'.pending = cache'.watchers
            /\ mon'.pending # {}
       /\ last'.op = "MonNotify" =>
            /\ last'.chat \in mon.pending
            /\ IF mon.pending = {last'.chat}
               THEN mon'.pc = "poll"
               ELSE mon'.pc = "notify" /\ mon'.pending = mon.pending \ {last'.chat}
            /\ last'.outcome # "sent" =>
                 /\ last'.chat \notin cache'.watchers
                 /\ last'.chat \notin users'
            /\ cache'.watchers \ {last'.chat} = cache.watchers \ {last'.chat}
            /\ users' \ {last'.chat} = users \ {last'.chat}]_vars

\* the first delivery of a fan-out raised and the other watcher is still pending
C17_Witness ==
    /\ last.op = "MonNotify"
    /\ last.outcome # "sent"
    /\ mon.pc = "notify"
    /\ mon.pending # {}
    /\ mon.pending = cache.watchers

\* C18: a delivery removes the watcher or its stored user only when it failed
\* because the user blocked the bot.
C18_OnlyBlockedIsRemoved ==
    [][(last'.op = "MonNotify" /\ last'.outcome # "blocked") =>
          /\ cache'.watchers = cache.watchers
          /\ users' = users]_vars

\* the message names file f
Names(message, f) == message = <<"updated:">> \o _format_title(f.title)

\* the files of the listing that the previous signature does not have under the
\* same title: the files added or retitled
AddedOrRetitled(files, previous_signature) ==
    {files[i] : i \in {j \in 1..Len(files) :
                         <<files[j].url, files[j].title>> \notin Range(Get(previous_signature))}}

\* C19: when files were added or retitled, the notification names one of them.
C19_MessageNamesChangedFile ==
    [][(last'.op = "MonNotify" /\ AddedOrRetitled(mon.files, mon.previous_signature) # {}) =>
          \E f \in AddedOrRetitled(mon.files, mon.previous_signature) :
              Names(last'.message, f)]_vars

\* C20: a notification is sent only in a cycle whose update_file_list reported a
\* change against a signature recorded before the cycle; a cycle that recorded the
\* first signature, found the listing unchanged or failed to fetch it leaves the
\* Monitor asleep or pre-warming.
C20_NotifyOnlyOnChange ==
    [][/\ last'.op = "MonNotify" =>
            /\ mon.changed
            /\ mon.previous_signature # None
            /\ SignatureDiffers(mon.files, mon.previous_signature)
       /\ last'.op = "MonPollFails" => mon'.pc \in {"poll", "extended_wait"}
       /\ (last'.op = "MonPoll" /\ cache.file_list_signature = None) =>
            mon'.previous_signature = None
       /\ mon'.pc = "notify" =>
            /\ mon'.changed
            /\ mon'.previous_signature # None]_vars

\* the watchers are being notified of a listing that replaced a recorded one
C20_Witness ==
    /\ last.op = "MonNotify"
    /\ mon.pc = "notify"
    /\ mon.changed
    /\ mon.previous_signature # None

(* Claims about the metadata and the TTLs *)

\* the bytes the cache serves for u without the network: the memory entry when it
\* has not expired, the disk file otherwise (schedule.py 363-373)
ServedBytes(c, t, u) ==
    IF get_file_content(c, t, u).ret # None THEN get_file_content(c, t, u).ret
    ELSE load_file_from_disk(c, u)

\* the sheet names of a workbook; none when the bytes are not a workbook
SheetNames(data) ==
    IF list_sheets(data).ok THEN Range(list_sheets(data).val) ELSE {}

\* the sheet names of a metadata dict
MetadataSheets(metadata) == {metadata[i].sheet : i \in 1..Len(metadata)}

LivesFor(t, ttl, got, value) ==
    /\ now < t + ttl => got = Some(value)
    /\ now > t + ttl => got = None

LessonsAt(u, sheet, group) ==
    LET ForWeek(wk) ==
            IF wk.ok /\ wk.val # <<>> THEN wk
            ELSE extract_group_schedule(Fresh(u).val, sheet, group, req.day, None)
    IN ForWeek(extract_group_schedule(Fresh(u).val, sheet, group, req.day, req.week))

\* the location has no lesson on the request's day in any week
NoLessonsAt(u, sheet, group) ==
    extract_group_schedule(Fresh(u).val, sheet, group, req.day, None) = Returned(<<>>)

\* C24: a match, from either path, carries the lessons of the request's week when
\* the location has some and its lessons of any week otherwise; the shortcut
\* location is given up as empty, and a file of the scan passed over as empty,
\* only when the location has no lessons without the week filter either.
C24_WeekFallback ==
    /\ (Answered /\ Answer.kind = "match") =>
          Answer.text = format_lessons(LessonsAt(Answer.file.url, Answer.sheet,
                                                 Answer.group).val)
    /\ (Answered /\ req.shortcut = "empty") =>
          NoLessonsAt(Get(req.tried).url, Get(req.tried).sheet, Get(req.tried).group)
    /\ (Answered /\ Answer.kind \in {"match", "none"} /\ Answer.path = "scan") =>
          \A j \in 1..Len(req.files) :
              (/\ req.idx = 0 \/ j < req.idx
               /\ req.files[j].url \notin req.failed
               /\ MatchIn(req.files[j].url, req.query) # None)
              => NoLessonsAt(req.files[j].url,
                             Get(MatchIn(req.files[j].url, req.query)).sheet,
                             Get(MatchIn(req.files[j].url, req.query)).group)

\* a shortcut answer whose lessons are those of another week: the location has
\* none in the request's week
C24_Witness ==
    /\ Answered
    /\ Answer.kind = "match"
    /\ Answer.path = "shortcut"
    /\ extract_group_schedule(Fresh(Answer.file.url).val, Answer.sheet, Answer.group,
                              req.day, req.week) = Returned(<<>>)

\* the shortcut entries the step wrote: those of the new cache that the old one
\* does not hold
Written == Range(cache'.group_location_cache) \ Range(cache.group_location_cache)

\* the shortcut entry a request that returns res records
EntryOf(res) ==
    [key |-> _normalize_group(req'.query), time |-> now', url |-> res.file.url,
     sheet |-> res.sheet, group |-> res.group]

\* C25: a step writes a shortcut entry only when it ends a request with a match
\* found by the full scan, and the entry then maps the normalized query to the url,
\* sheet and group name returned; every request that ends with such a match leaves
\* that entry in the cache.
C25_ShortcutWrittenByScanMatch ==
    [][/\ Written # {} =>
            /\ req'.pc = "done"
            /\ req.pc # "done" \/ last'.op = "StartRequest"
            /\ Get(req'.result).kind = "match"
            /\ Get(req'.result).path = "scan"
            /\ Written = {EntryOf(Get(req'.result))}
       /\ (/\ req'.pc = "done"
           /\ req.pc # "done" \/ last'.op = "StartRequest"
           /\ Get(req'.result).kind = "match"
           /\ Get(req'.result).path = "scan")
          => EntryOf(Get(req'.result)) \in Range(cache'.group_location_cache)]_vars

\* the scan answered "g 1" and the shortcut of G1 was written at this instant
C25_Witness ==
    /\ Answered
    /\ Answer.kind = "match"
    /\ Answer.path = "scan"
    /\ req.query = <<"g", " ", "1">>
    /\ \E e \in Range(cache.group_location_cache) :
          e.key = <<"G", "1">> /\ e.time = now /\ e.url = Answer.file.url

-----------------------------------------------------------------------------
(* The Parser alone: each of its functions applied once, to every input of  *)
(* a bounded set                                                            *)

ParserBooks == {BookB, BookNoDay, BookTyped}
ParserSheets == {"S1", "S2"}
ParserGroups ==
    {G1, DAY_COLUMN, <<"G", " ", "-", " ", "1">>, <<"G", "-", "1">>,
     <<"G", " ", "2">>, <<"U", "n", "n", "a", "m", "e", "d", ":", " ", "3">>}
ParserDays == {None, Some("Mon"), Some("Tue")}
ParserWeeks == {None, Some(2), Some(5), Some(12)}

CallExtractGroupSchedule ==
    \E data \in ParserBooks, sheet_name \in ParserSheets, group_name \in ParserGroups,
       day_filter \in ParserDays, current_week \in ParserWeeks :
        /\ last = NoLast
        /\ last' = [NoLast EXCEPT
                        !.op = "extract_group_schedule",
                        !.args = <<data, sheet_name, group_name, day_filter, current_week>>,
                        !.got = extract_group_schedule(data, sheet_name, group_name,
                                                       day_filter, current_week)]
        /\ UNCHANGED <<cache, now, site, mon, req, users, inserted, owed>>

WeekNumbers == {1, 5, 8, 9, 12, 16, 17}

\* the segmentation of a cell and the filter of lines 68-75 on its blocks
CallMergeBlocks ==
    \E content \in Contents, current_week \in WeekNumbers :
        /\ last = NoLast
        /\ last' = [NoLast EXCEPT
                        !.op = "_merge_blocks",
                        !.args = <<content, current_week>>,
                        !.got = <<_merge_blocks(content),
                                  matching_blocks(_merge_blocks(content),
                                                  Some(current_week))>>]
        /\ UNCHANGED <<cache, now, site, mon, req, users, inserted, owed>>

\* the Normalizer applied to a workbook, and again to what it returned
CallProcessWorkbook ==
    \E data \in Workbooks \ {BookEmpty} :
        LET once == process_workbook(data)
        IN /\ last = NoLast
           /\ last' = [NoLast EXCEPT !.op = "process_workbook",
                                     !.args = <<data>>,
                                     !.got = <<once, process_workbook(once.val)>>]
           /\ UNCHANGED <<cache, now, site, mon, req, users, inserted, owed>>

NextParser ==
    \/ CallExtractGroupSchedule
    \/ CallMergeBlocks
    \/ CallProcessWorkbook

SpecParser == InitCache /\ [][NextParser]_vars

\* the sheet of the workbook the last extraction was asked for, if it has one
Extracted == last.op = "extract_group_schedule"
ExtractedSheet ==
    SelectSeq(Sheets(last.args[1]), LAMBDA sh : sh.name = last.args[2])
\* the texts of the cells of the header row
HeaderRow(sh) == Range(sh.header) \ {<<>>}
IsGroupNotFound(result) == ~result.ok /\ result.val # <<>>

\* C26 as stated: the extraction raises the group-not-found error exactly when
\* the requested name is not the text of a cell of the sheet's header row
C26_GroupNotFoundIffNotInHeaderRow ==
    (Extracted /\ ExtractedSheet # <<>>)
        => (IsGroupNotFound(last.got)
                <=> last.args[3] \notin HeaderRow(Head(ExtractedSheet)))

\* C26, amended: the extraction raises the group-not-found error exactly when
\* the requested name is not the cleaned-up text of a cell of the header row
\* (whitespace collapsed and trimmed, the spaces around a hyphen removed)
C26_GroupNotFoundIffNotAColumn ==
    (Extracted /\ ExtractedSheet # <<>>)
        => (IsGroupNotFound(last.got)
                <=> last.args[3] \notin {_cleanup_column_name(h) :
                                            h \in HeaderRow(Head(ExtractedSheet))})

\* a group whose header is typed with spaces is extracted under its clean name
C26_Witness ==
    /\ Extracted /\ ExtractedSheet # <<>>
    /\ last.args[3] \notin HeaderRow(Head(ExtractedSheet))
    /\ last.got.ok /\ last.got.val # <<>>

\* the cells the last extraction read: those of the group's column on the days
\* the day filter lets through
MatchingCells ==
    LET df == _load_sheet(last.args[1], last.args[2]).val
        Matching(row) == /\ row.column = last.args[3]
                         /\ last.args[4] \in {None, Some(row.day)}
    IN {df.rows[i].content : i \in {j \in 1..Len(df.rows) : Matching(df.rows[j])}}

\* a week annotation: a number and the week unit, or a range after the subgroup mark
HasWeekAnnotation(text) ==
    \/ \E i \in 1..Len(text) :
          IsDigit(text[i]) /\ IsWeekUnit(text, RunEnd(text, i + 1, Spaces))
    \/ \E i \in 1..Len(text) : WeekAfterSubgroupAt(text, i) # None

Merged == last.op = "_merge_blocks"

\* the blocks a cell of two lessons is to give, and those of them of the week
ExpectedBlocks(t1, r1, t2, r2) ==
    <<LessonBlock(t1.text, <<r1>>), LessonBlock(t2.text, <<r2>>)>>
ExpectedMatching(t1, r1, t2, r2, week) ==
    (IF t1.from <= week /\ week <= t1.to THEN <<LessonBlock(t1.text, <<r1>>)>> ELSE <<>>)
        \o (IF t2.from <= week /\ week <= t2.to THEN <<LessonBlock(t2.text, <<r2>>)>>
            ELSE <<>>)

-----------------------------------------------------------------------------
(* The shortcut's keys: locations stored under one spelling of a group and   *)
(* looked up under another, within the TTL                                    *)

MaxStored == 2
KeyQueries ==
    {<<"g", "1">>, <<"G", " ", "1">>, <<" ", "g", "\t", "1">>,
     <<"G", "2">>, <<"g", "-", "1">>, <<"G", "1", " ">>}

\* schedule.py 236-241: the Resolver stores the location under the query
StoreLocation ==
    \E q \in KeyQueries :
        /\ Len(inserted) < MaxStored
        /\ cache' = set_group_location(cache, now, q, "a", "S1", G1)
        /\ inserted' = Append(inserted, q)
        /\ last' = [NoLast EXCEPT !.op = "set_group_location", !.args = <<q>>]
        /\ UNCHANGED <<now, site, mon, req, users, owed>>

\* schedule.py 89-92: the Resolver looks the query up
LookUpLocation ==
    \E q \in KeyQueries :
        LET r == get_group_location(cache, now, q)
        IN /\ cache' = r.cache
           /\ last' = [NoLast EXCEPT !.op = "get_group_location", !.args = <<q>>,
                                     !.got = r.ret]
           /\ UNCHANGED <<now, site, mon, req, users, inserted, owed>>

NextKeys ==
    \/ StoreLocation
    \/ LookUpLocation

SpecKeys == InitCache /\ [][NextKeys]_vars

\* C30: the Cache keys a location by the string the Resolver's normalizer
\* gives, so a look-up under q2 finds a location stored under q1 exactly when
\* the Resolver's normalizer gives q1 and q2 the same target
C30_KeysAreResolverTargets ==
    /\ LocKeys(cache.group_location_cache)
            = {_normalize_group(inserted[i]) : i \in 1..Len(inserted)}
    /\ last.op = "get_group_location"
            => (last.got # None
                    <=> \E i \in 1..Len(inserted) :
                           _normalize_group(inserted[i]) = _normalize_group(last.args[1]))

\* a location found under a spelling it was not stored under
C30_Witness ==
    /\ last.op = "get_group_location"
    /\ last.got # None
    /\ last.args[1] \notin Range(inserted)

-----------------------------------------------------------------------------
(* Claims about the byte counter: the cache driven through its interface,   *)
(* clear() included                                                          *)

\* cache.py 315-319: the listing, its signature, the raw bytes and the watchers
\* are dropped; the byte counter, the metadata and the locations are not touched
clear(c) ==
    [c EXCEPT !.file_list_cache = None,
              !.file_list_signature = None,
              !.file_content_cache = <<>>,
              !.watchers = {}]

CallClear ==
    /\ cache' = clear(cache)
    /\ last' = [NoLast EXCEPT !.op = "clear",
                              !.evicted = DictKeys(cache.file_content_cache)]
    /\ inserted' = <<>>
    /\ UNCHANGED <<now, site, mon, req, users, owed>>

NextClear ==
    \/ Tick
    \/ CallSetFileContent
    \/ CallGetFileContent
    \/ CallUpdateFileList
    \/ CallClear

SpecClear == InitCache /\ [][NextClear]_vars

\* C31: after every operation of the cache (set, a get that expires an entry,
\* eviction, pruning on a listing change, clear) the byte counter equals the sum
\* of the lengths of the entries held in memory
C31_CounterIsSumOfLengths == cache.current_cache_size = CachedBytes(cache)

\* C37: a set_file_content(url, bytes) with bytes no longer than the budget is
\* followed by a get_file_content(url) that returns those bytes, whatever calls
\* came before; an entry is evicted by its own insertion only when it is larger
\* than the whole budget
C37_SetThenGet ==
    [][\A u \in Urls, b \in Books :
          (/\ last'.op = "set_file_content"
           /\ last'.url = u
           /\ cache' = set_file_content(cache, now, u, b, FALSE)
           /\ BookLen(b) <= MaxCacheSize)
              => get_file_content(cache', now', u).ret = Some(b)]_vars

-----------------------------------------------------------------------------
(* The loop of _merge_blocks, one line per step.  `last.args` holds the      *)
(* content and the lines not yet read, `last.got` the locals of the loop     *)
(* and, once the function has returned, its blocks.                          *)

MaxLines == 3

\* the lines of the cells:
\*   "Fizika (lek) 1-8n" a title by its lesson-type marker, with a week range
\*   "M1 (lek)"         an uppercase letter and a marker, a digit among the first six characters
\*   "aud 205"          a room
\*   "9-16n"            a week range and nothing else
\*   "ivanov i."        a teacher
\*   "  "               a blank line
\*   "http://x (lek)"   a link
\*   "Himia"            a title by its capital letter
\*   " 5 n lab"         a week, between spaces
SegmentLines ==
    <<<<"F", "i", "z", "i", "k", "a", " ", "(", "l", "e", "k", ")", " ", "1", "-", "8", "n">>,
      <<"M", "1", " ", "(", "l", "e", "k", ")">>,
      <<"a", "u", "d", " ", "2", "0", "5">>,
      <<"9", "-", "1", "6", "n">>,
      <<"i", "v", "a", "n", "o", "v", " ", "i", ".">>,
      <<" ", " ">>,
      <<"h", "t", "t", "p", ":", "/", "/", "x", " ", "(", "l", "e", "k", ")">>,
      <<"H", "i", "m", "i", "a">>,
      <<" ", "5", " ", "n", " ", "l", "a", "b">>>>

\* the cells of one to MaxLines of these lines
SegmentContents ==
    {join(<<"\n">>, lines) :
        lines \in UNION {[1..n -> Range(SegmentLines)] : n \in 1..MaxLines}}

\* parser.py 269-275
SegmentStart ==
    \E content \in SegmentContents :
        /\ last = NoLast
        /\ last' = [NoLast EXCEPT
                        !.op = "loop",
                        !.args = <<content,
                                   split(replace(content, <<"\r", "\n">>, <<"\n">>), "\n")>>,
                        !.got = Some(NoBlocks)]
        /\ UNCHANGED <<cache, now, site, mon, req, users, inserted, owed>>

\* parser.py 318-340: one turn of the loop
SegmentLine ==
    /\ last.op = "loop"
    /\ last.args[2] # <<>>
    /\ last' = [last EXCEPT !.args[2] = Tail(@),
                            !.got = Some(MergeLine(Get(last.got), Head(last.args[2])))]
    /\ UNCHANGED <<cache, now, site, mon, req, users, inserted, owed>>

\* parser.py 342-350: the last flush and the return
SegmentReturn ==
    /\ last.op = "loop"
    /\ last.args[2] = <<>>
    /\ last' = [last EXCEPT !.op = "return",
                            !.got = BlocksOrContent(flush(Get(last.got)).blocks,
                                                    strip(last.args[1]))]
    /\ UNCHANGED <<cache, now, site, mon, req, users, inserted, owed>>

NextSegment ==
    \/ SegmentStart
    \/ SegmentLine
    \/ SegmentReturn

SpecSegment == InitCache /\ [][NextSegment]_vars

\* the turn of the loop that has just read a line: the locals before it and
\* after it, and the line as the loop sees it
Turned == last.op = "loop" /\ last'.op = "loop"
Before == Get(last.got)
After == Get(last'.got)
Stripped == strip(Head(last.args[2]))

\* the turn closed the open block and made the line the title of a new one
ClosedAndStarted ==
    /\ After.blocks = Append(Before.blocks, LessonBlock(Get(Before.title), Before.details))
    /\ After.title = Some(Stripped)
    /\ After.details = <<>>

\* the turn appended the line to the open block
AppendedAsDetail ==
    /\ After.blocks = Before.blocks
    /\ After.title = Before.title
    /\ After.details = Append(Before.details, Stripped)

\* a week marker is recorded for the open block: in its title or in a detail
HasWeekMarker(s) ==
    \/ _contains_week(Get(s.title))
    \/ \E i \in 1..Len(s.details) : _contains_week(s.details[i])

\* the line begins with an uppercase letter and contains a lesson-type marker,
\* does not start with a URL scheme and does not contain the room marker
HasLessonTypeMarker(text) ==
    /\ text # <<>>
    /\ ~startswith(text, <<"h", "t", "t", "p">>)
    /\ ~Contains(lower(text), <<"a", "u", "d">>)
    /\ IsUpper(text[1])
    /\ \E marker \in title_markers : Contains(text, marker)

\* C32: a line that does not start with a URL scheme, does not contain the
\* room marker, begins with an uppercase letter and contains a lesson-type
\* marker closes the open block and starts a new one, whatever else it
\* contains (a digit among its first characters or not)
C32_MarkedLineStartsBlock ==
    [][(Turned /\ Before.title # None /\ HasLessonTypeMarker(Stripped))
            => ClosedAndStarted]_vars

\* the lines of the content the function returned for
ReturnedLines == split(replace(last.args[1], <<"\r", "\n">>, <<"\n">>), "\n")

\* C33: when no line of the content is classified as a title, the function
\* returns exactly one block, its title the full text of the cell and its
\* details empty
C33_NoTitleOneBlock ==
    (/\ last.op = "return"
     /\ strip(last.args[1]) # <<>>
     /\ \A i \in 1..Len(ReturnedLines) : ~is_title(strip(ReturnedLines[i])))
        => \/ last.got = <<LessonBlock(last.args[1], <<>>)>>
           \/ last.got = <<LessonBlock(strip(last.args[1]), <<>>)>>

\* C34: a line that is not a title and carries a week marker closes the open
\* block and becomes the title of a new one when the open block has a week
\* marker recorded (in its title or in an earlier detail), and is appended to
\* the open block as a detail when it has none
C34_SecondWeekIsBoundary ==
    [][(/\ Turned
        /\ Before.title # None
        /\ Stripped # <<>>
        /\ ~is_title(Stripped)
        /\ _contains_week(Stripped))
            => IF HasWeekMarker(Before) THEN ClosedAndStarted ELSE AppendedAsDetail]_vars

\* a block closed by a week marker that followed the week marker of one of
\* its details
C34_Witness ==
    /\ last.op = "loop"
    /\ Get(last.got).blocks # <<>>
    /\ Get(last.got).title # None
    /\ ~is_title(Get(Get(last.got).title))
    /\ _contains_week(Get(Get(last.got).title))
    /\ LET closed == Get(last.got).blocks[Len(Get(last.got).blocks)]
       IN /\ ~_contains_week(closed.title)
          /\ \E i \in 1..Len(closed.details) : _contains_week(closed.details[i])

RECURSIVE BlockLines(_)
\* the titles and the details of the blocks, block by block
BlockLines(blocks) ==
    IF blocks = <<>> THEN <<>>
    ELSE <<Head(blocks).title>> \o Head(blocks).details \o BlockLines(Tail(blocks))

\* the lines of the content that are not blank, trimmed
NonBlankLines(lines) ==
    SelectSeq([i \in 1..Len(lines) |-> strip(lines[i])], LAMBDA line : line # <<>>)

\* C40: the titles and the details of the returned blocks, read block by
\* block, are the non-blank lines of the content, trimmed, in their order
C40_NothingLostOrReordered ==
    last.op = "return" => BlockLines(last.got) = NonBlankLines(ReturnedLines)

\* a content with a blank line between two lines, returned as two blocks
C40_Witness ==
    /\ last.op = "return"
    /\ Len(last.got) = 2
    /\ Len(ReturnedLines) = 3
    /\ strip(ReturnedLines[2]) = <<>>

-----------------------------------------------------------------------------
(* Claims about the acquisition of bytes *)

\* C35: within one scan of the listing the bytes of a file are asked for at
\* most once, and never for a file whose cached metadata do not list the group
C35_BytesAcquiredOncePerFile ==
    /\ \A i, j \in 1..Len(req.acquired) :
          req.acquired[i].idx = req.acquired[j].idx => i = j
    /\ \A i \in 1..Len(req.acquired) :
          req.acquired[i].cached => req.acquired[i].listed

\* a scan that passed over its first file on the cached metadata and asked for
\* the bytes of its second file, whose cached metadata list the group, once
C35_Witness ==
    /\ req.pc = "done"
    /\ Get(req.result).path = "scan"
    /\ Len(req.acquired) = 1
    /\ req.acquired[1].idx = 2
    /\ req.acquired[1].cached

\* C36: no two downloads of one URL are in flight at a time: a file that
\* several tasks need while it is neither in memory nor on disk is downloaded
\* by one of them only
C36_OneDownloadInFlight ==
    ~(/\ req.pc = "download"
      /\ mon.pc = "download"
      /\ req.files[req.idx].url = mon.files[mon.idx].url)

\* the site replaces the workbook at "a" and retitles its link: the page goes
\* from its version 1 to its version 3
Republish ==
    /\ site = 1
    /\ site' = 3
    /\ last' = Step("Republish")
    /\ UNCHANGED <<cache, now, mon, req, users, inserted, owed>>

\* the bot on a network that answers, a workbook replaced at its URL meanwhile
NextRace ==
    \/ Republish
    \/ StartRequest
    \/ ReqList
    \/ ReqDiskRead
    \/ ReqDownload
    \/ ReqPersist
    \/ MonPoll
    \/ MonDiskRead
    \/ MonDownload
    \/ MonPersist

SpecRace == Init /\ [][NextRace]_vars

\* the request, or the Monitor, is waiting for fetcher.download(u) to return
ReqDownloads(r, u) == r.pc = "download" /\ r.files[r.idx].url = u
MonDownloads(m, u) == m.pc = "download" /\ m.files[m.idx].url = u

\* the step calls fetcher.download(u)
StartsDownload(u) ==
    \/ ReqDownloads(req', u) /\ ~ReqDownloads(req, u)
    \/ MonDownloads(mon', u) /\ ~MonDownloads(mon, u)

-----------------------------------------------------------------------------
(* The registration store and the watchers: the bot with its users           *)
(* registering, the administrator broadcasting and the process restarting    *)

\* handle_group_input storing the group without cache.add_watcher
RegisterWithoutWatching ==
    /\ \E chat_id \in Subscribers : users' = users \cup {chat_id}
    /\ last' = Step("Register")
    /\ UNCHANGED <<cache, now, site, mon, req, inserted, owed>>

\* start.py 120-123: the group a user typed has been validated; it is stored and
\* the chat is added to the watchers
Register ==
    /\ \E chat_id \in Subscribers :
          /\ users' = users \cup {chat_id}
          /\ cache' = add_watcher(cache, chat_id)
          /\ last' = [Step("Register") EXCEPT !.chat = chat_id]
    /\ UNCHANGED <<now, site, mon, req, inserted, owed>>

\* admin.py 283-300: bot.send_message of the broadcast to one stored user returns
\* or raises; a user who blocked the bot is removed from the store and from the
\* watchers
AdminSend ==
    /\ \E chat_id \in users, outcome \in Deliveries :
          /\ users' = IF outcome = "blocked" THEN users \ {chat_id} ELSE users
          /\ cache' = IF outcome = "blocked" THEN remove_watcher(cache, chat_id)
                       ELSE cache
          /\ last' = [Step("AdminSend") EXCEPT !.chat = chat_id, !.outcome = outcome]
    /\ UNCHANGED <<now, site, mon, req, inserted, owed>>

\* deps.py 17-33: the process starts again: a new cache over the files on disk,
\* its watchers loaded from the stored users
Restart ==
    /\ cache' = [NewCache EXCEPT !.watchers = users, !.disk = cache.disk]
    /\ mon' = IdleMon
    /\ req' = IdleReq
    /\ owed' = {}
    /\ last' = Step("Restart")
    /\ UNCHANGED <<now, site, users, inserted>>

\* schedule.py 70 and start.py 49: a handler adds the chat of its message to the
\* watchers; what the handler does next touches neither the watchers nor the store
Watch ==
    /\ \E chat_id \in Subscribers :
          /\ cache' = add_watcher(cache, chat_id)
          /\ last' = [Step("Watch") EXCEPT !.chat = chat_id]
    /\ UNCHANGED <<now, site, mon, req, users, inserted, owed>>

NextWatchers ==
    \/ Republish
    \/ Watch
    \/ MonPoll
    \/ MonDiskRead
    \/ MonDownload
    \/ MonPersist
    \/ MonNotify
    \/ Register
    \/ AdminSend
    \/ Restart

SpecWatchers == InitNotify /\ [][NextWatchers]_vars

\* C39: every user of the registration store is a watcher of the cache
C39_StoredUsersAreWatchers == users \subseteq get_watchers(cache)

\* a notification has just failed for one stored user and not for the other:
\* the one is gone from the store and from the watchers, the other is in both
C39_Witness ==
    /\ last.op = "MonNotify"
    /\ DeliveryRaised(last.outcome)
    /\ last.chat \notin users
    /\ last.chat \notin get_watchers(cache)
    /\ users # {}

====
